---- MODULE Spec2Model ----
(***************************************************************************)
(* go-specgen: the annotation parser (escape/brace utilities, block and    *)
(* inline parsers, annotation schema), the @api step of Parser.Parse and   *)
(* the generate() pipeline of cmd/specgen.                                 *)
(*                                                                         *)
(* A Go string is a sequence of one-character strings; a Go index i is the *)
(* TLA+ index i+1, and the operators below keep the Go (0-based) indices   *)
(* of the source.                                                          *)
(*                                                                         *)
(* Then the resolver (type resolution with its cache, field resolution,    *)
(* Resolve over a parsed package) and Validator.Validate.                  *)
(*                                                                         *)
(* Six specifications share the variables:                                 *)
(*   SpecParse     one block of a schema node, parsed in multi-line form,  *)
(*                 by the inline branch and by ParseInlineAnnotation;      *)
(*   SpecBrace     ParseBracedBlock and ExtractMetadata on raw lines;      *)
(*   SpecPipeline  generate(), with Parser.Parse on a package comment;     *)
(*   SpecRuns      two runs of the parser and the generator on one input;  *)
(*   SpecResolve   calls of the field resolvers on one Resolver;           *)
(*   SpecPackage   Resolver.Resolve and Validator.Validate on a package.   *)
(***************************************************************************)
EXTENDS Integers, Sequences, FiniteSets, TLC

VARIABLES
    node,       \* parser input: the target annotation whose block is parsed
    kids,       \* parser input: the child chunks written between the block's braces
    multiOut,   \* result of ParseAnnotationBlock on the multi-line form
    inlineOut,  \* result of ParseAnnotationBlock on the one-line form
    annOut,     \* result of ParseInlineAnnotation on the one-line form
    meta,       \* brace-utility input: the metadata of the opening line
    ending,     \* brace-utility input: the opening line after the metadata
    body,       \* brace-utility input: the lines after the opening line
    bracedOut,  \* result of ParseBracedBlock on these lines
    metaOut,    \* result of ExtractMetadata on the opening line
    comment,    \* pipeline input: the package doc comment
    outputDir,  \* pipeline input: filepath.Dir(outputPath)
    stage,      \* pipeline: position inside generate()
    ran,        \* pipeline: the stages that have run, in order
    failedAt,   \* pipeline: the stage that returned an error, or "none"
    parsed,     \* pipeline: what Parser.Parse returned
    written,    \* pipeline: TRUE once os.WriteFile has written the output file
    functionComments,  \* runs input: ExtractedComments.FunctionComments
    structComments,    \* runs input: ExtractedComments.StructComments with the FieldComments
    runs,              \* runs: what each run of the parser and the generator returned
    schemaNames,       \* resolver input: the names of the parsed @schema structs
    typeCache,         \* resolver: Resolver.typeCache
    call,              \* resolver: the last call made on the Resolver
    resolvedFields,    \* resolver: what the last call returned
    calls,             \* resolver: the number of calls made
    parsedPackage,     \* package input: the ParsedPackage handed to Resolve
    resolvedPackage,   \* package: what Resolve returned
    validation,        \* package: what Validate returned
    decls,             \* generics input: the type declarations in the order ast.Inspect visits them
    extracted,         \* generics: what ExtractComments recorded of the declarations
    parsedSchemas,     \* generics: what parseSchemas returned
    resolvedSchemas,   \* generics: what Resolve returned for the schemas
    components,        \* generics: the names generateSchemas emitted
    literal,           \* escape input: the literal text an annotation value stands for
    escaped,           \* escape input: the text as written in the comment, with its escapes
    unescaped,         \* escape: what UnescapeValue returned for the escaped text
    packageAPI,        \* validate input: the API of the package, nil when the package has no @api block
    ended,             \* validate: how Validate ended on the package with that API
    layout,            \* layout input: where the braces of the block are written
    laidOut,           \* layout: what ParseAnnotationBlock returned for the block in that layout
    descent,           \* descend: the call of resolveType or checkUnresolvedStruct that is running on a field type
    frames,            \* calls: the calls of ParseAnnotationBlock that are inside their parseChildren loop, outermost first
    outcome            \* calls: what the outermost ParseAnnotationBlock returned

vars == <<node, kids, multiOut, inlineOut, annOut, meta, ending, body, bracedOut,
          metaOut, comment, outputDir, stage, ran, failedAt, parsed, written,
          functionComments, structComments, runs,
          schemaNames, typeCache, call, resolvedFields, calls,
          parsedPackage, resolvedPackage, validation,
          decls, extracted, parsedSchemas, resolvedSchemas, components, literal, escaped, unescaped, packageAPI, ended, layout, laidOut, descent, frames, outcome>>

-----------------------------------------------------------------------------
(* Characters *)

AT == "@"
LB == "{"
RB == "}"
BS == "\\"
SP == " "
TAB == "\t"
NL == "\n"
NUL == "NUL"

\* Go: s[i] for a 0-based index i
At(s, i) == s[i + 1]

\* Go: s[i:j] for 0-based i, j
Slice(s, i, j) == SubSeq(s, i + 1, j)

\* Go: s[i:]
From(s, i) == SubSeq(s, i + 1, Len(s))

IsSpace(c) == c \in {SP, TAB, NL}

RECURSIVE TrimLeft(_)
TrimLeft(s) ==
    IF s # <<>> /\ IsSpace(Head(s)) THEN TrimLeft(Tail(s)) ELSE s

RECURSIVE TrimRight(_)
TrimRight(s) ==
    IF s # <<>> /\ IsSpace(s[Len(s)]) THEN TrimRight(SubSeq(s, 1, Len(s) - 1)) ELSE s

\* strings.TrimSpace
TrimSpace(s) == TrimRight(TrimLeft(s))

\* strings.HasPrefix
HasPrefix(s, p) == Len(p) <= Len(s) /\ SubSeq(s, 1, Len(p)) = p

\* strings.HasSuffix
HasSuffix(s, p) == Len(p) <= Len(s) /\ SubSeq(s, Len(s) - Len(p) + 1, Len(s)) = p

\* strings.TrimPrefix
TrimPrefix(s, p) == IF HasPrefix(s, p) THEN From(s, Len(p)) ELSE s

\* strings.TrimSuffix
TrimSuffix(s, p) == IF HasSuffix(s, p) THEN SubSeq(s, 1, Len(s) - Len(p)) ELSE s

\* the least index of a set of indices, or none when the set is empty
First(S, none) == IF S = {} THEN none ELSE CHOOSE i \in S : \A j \in S : i <= j

\* strings.Index for a one-character needle: first 0-based index, or -1
Index(s, c) == First({i \in 0..(Len(s) - 1) : At(s, i) = c}, -1)

\* strings.Index for a non-empty needle
IndexOf(s, old) ==
    First({i \in 0..(Len(s) - Len(old)) : Slice(s, i, i + Len(old)) = old}, -1)

\* strings.LastIndex for a one-character needle
LastIndex(s, c) ==
    IF \E i \in 1..Len(s) : s[i] = c
    THEN (CHOOSE i \in 1..Len(s) : s[i] = c /\ \A j \in (i + 1)..Len(s) : s[j] # c) - 1
    ELSE -1

\* strings.IndexAny(s, " \t")
IndexAnySpaceTab(s) == First({i \in 0..(Len(s) - 1) : At(s, i) \in {SP, TAB}}, -1)

\* strings.ReplaceAll(s, old, new), old non-empty: leftmost non-overlapping matches
RECURSIVE ReplaceAll(_, _, _)
ReplaceAll(s, old, new) ==
    LET m == IndexOf(s, old)
    IN  IF m = -1 THEN s
        ELSE Slice(s, 0, m) \o new \o ReplaceAll(From(s, m + Len(old)), old, new)

\* strings.Split(s, sep) for a one-character separator
RECURSIVE Split(_, _)
Split(s, c) ==
    LET m == Index(s, c)
    IN  IF m = -1 THEN <<s>>
        ELSE <<Slice(s, 0, m)>> \o Split(From(s, m + 1), c)

-----------------------------------------------------------------------------
(* Escape and brace utilities *)

atPlaceholder == <<NUL, "A", "T", NUL>>
backslashPlaceholder == <<NUL, "B", "S", NUL>>

\* a scanner without the escape skip
IsEscapeNever(s, i) == FALSE

\* the test every scanner makes: a backslash at i followed by one of { } @ \

IsEscape(s, i) ==
    /\ At(s, i) = BS
    /\ i + 1 < Len(s)
    /\ At(s, i + 1) \in {LB, RB, AT, BS}

\* an unescape that knows the escapes of the braces and of @ only
UnescapeBracesAndAt(value) ==
    ReplaceAll(ReplaceAll(ReplaceAll(value, <<BS, LB>>, <<LB>>), <<BS, RB>>, <<RB>>),
               <<BS, AT>>, <<AT>>)

UnescapeValue(value) ==
    LET r1 == ReplaceAll(value, <<BS, BS>>, backslashPlaceholder)
        r2 == ReplaceAll(r1, <<BS, LB>>, <<LB>>)
        r3 == ReplaceAll(r2, <<BS, RB>>, <<RB>>)
        r4 == ReplaceAll(r3, <<BS, AT>>, <<AT>>)
    IN  ReplaceAll(r4, backslashPlaceholder, <<BS>>)

\* where a scanning loop that is at index i next meets one of the characters cs
\* (every iteration in between only advances the index), or Len(s)
NextOf(s, i, cs) == First({j \in i..(Len(s) - 1) : At(s, j) \in cs}, Len(s))

\* the loop shared by CountUnescapedBraces and countBracesFromPosition
RECURSIVE countBracesLoop(_, _, _)
countBracesLoop(line, from, depth) ==
    LET i == NextOf(line, from, {BS, LB, RB}) IN
    IF i >= Len(line) THEN depth
    ELSE IF IsEscape(line, i) THEN countBracesLoop(line, i + 2, depth)
    ELSE IF At(line, i) = LB THEN countBracesLoop(line, i + 1, depth + 1)
    ELSE IF At(line, i) = RB THEN countBracesLoop(line, i + 1, depth - 1)
    ELSE countBracesLoop(line, i + 1, depth)

\* the depth CountUnescapedBraces returns
CountUnescapedBraces(content) == countBracesLoop(content, 0, 0)

countBracesFromPosition(line, startPos) == countBracesLoop(line, startPos, 0)

ProtectEscapedAt(content) == ReplaceAll(content, <<BS, AT>>, atPlaceholder)

RestoreEscapedAt(content) == ReplaceAll(content, atPlaceholder, <<BS, AT>>)

RECURSIVE containsUnescapedBraceFrom(_, _)
containsUnescapedBraceFrom(content, from) ==
    LET i == NextOf(content, from, {BS, LB, RB}) IN
    IF i >= Len(content) THEN FALSE
    ELSE IF IsEscape(content, i) THEN containsUnescapedBraceFrom(content, i + 2)
    ELSE IF At(content, i) \in {LB, RB} THEN TRUE
    ELSE containsUnescapedBraceFrom(content, i + 1)

ContainsUnescapedBrace(content) == containsUnescapedBraceFrom(content, 0)

StartsWithUnescapedAt(line) ==
    LET t == TrimSpace(line) IN
    IF Len(t) = 0 THEN FALSE ELSE At(t, 0) = AT

-----------------------------------------------------------------------------
(* Block delimiter and braced block (annotation parser) *)

\* the delimiter test without the whitespace before the brace
IsOpenerAtAnyBrace(line, i) == At(line, i + 1) = LB

\* the delimiter test of findBlockOpener at index i, after the escape skip

IsOpenerAt(line, i) ==
    /\ At(line, i) \in {SP, TAB}
    /\ At(line, i + 1) = LB

RECURSIVE findBlockOpenerFrom(_, _)
findBlockOpenerFrom(line, from) ==
    LET i == First({j \in from..(Len(line) - 2) : At(line, j) = BS \/ IsOpenerAt(line, j)},
                   Len(line))
    IN
    IF i >= Len(line) - 1 THEN -1
    ELSE IF IsEscape(line, i) THEN findBlockOpenerFrom(line, i + 2)
    ELSE IF IsOpenerAt(line, i) THEN i + 1
    ELSE findBlockOpenerFrom(line, i + 1)

findBlockOpener(line) == findBlockOpenerFrom(line, 0)

\* ParseBracedBlock, first loop: 0-based index of the first line with a block
\* opener, or -1
RECURSIVE openLineIndexFrom(_, _)
openLineIndexFrom(lines, i) ==
    IF i >= Len(lines) THEN -1
    ELSE IF findBlockOpener(At(lines, i)) >= 0 THEN i
    ELSE openLineIndexFrom(lines, i + 1)

Braced(content) == [ok |-> TRUE, content |-> content]
Failed(msg) == [ok |-> FALSE, err |-> msg]

\* ParseBracedBlock, second loop, at line i with the content and depth so far
RECURSIVE bracedLoop(_, _, _, _, _, _)
bracedLoop(lines, openLineIndex, openBracePos, i, content, braceDepth) ==
    IF i >= Len(lines)
    THEN IF braceDepth # 0 THEN Failed("unbalanced braces") ELSE Braced(content)
    ELSE
        LET raw == At(lines, i)
            d == IF i = openLineIndex
                 THEN braceDepth + countBracesFromPosition(raw, openBracePos)
                 ELSE braceDepth + CountUnescapedBraces(raw)
            line == TrimSpace(IF i = openLineIndex THEN From(raw, openBracePos + 1) ELSE raw)
        IN  IF d = 0
            THEN IF i = openLineIndex /\ line # <<>>
                 THEN LET inner == TrimSpace(TrimSuffix(line, <<RB>>))
                      IN  Braced(IF inner # <<>> THEN Append(content, inner) ELSE content)
                 ELSE Braced(content)
            ELSE IF d < 0 THEN Failed("unbalanced braces")
            ELSE bracedLoop(lines, openLineIndex, openBracePos, i + 1,
                            IF line # <<>> THEN Append(content, line) ELSE content, d)

ParseBracedBlock(lines) ==
    IF Len(lines) = 0 THEN Braced(<<>>)
    ELSE LET openLineIndex == openLineIndexFrom(lines, 0) IN
         IF openLineIndex = -1 THEN Braced(<<>>)
         ELSE bracedLoop(lines, openLineIndex,
                         findBlockOpener(At(lines, openLineIndex)),
                         openLineIndex, <<>>, 0)

ExtractMetadata(line, annotationName) ==
    LET rest == TrimPrefix(line, annotationName)
        blockPos == findBlockOpener(rest)
    IN  TrimSpace(IF blockPos >= 0 THEN Slice(rest, 0, blockPos - 1) ELSE rest)

-----------------------------------------------------------------------------
(* Annotation schema *)

NoChildren == <<>>

SchemaNode(name, type, flags, children) ==
    [Name |-> name,
     Type |-> type,
     Required |-> "Required" \in flags,
     HasMetadata |-> "HasMetadata" \in flags,
     Repeatable |-> "Repeatable" \in flags,
     SupportsMultiline |-> "SupportsMultiline" \in flags,
     Children |-> children]

\* SchemaNode.HasChild: GetChild(name) != nil
HasChild(n, name) == name \in DOMAIN n.Children

\* SchemaNode.GetChild, for a name HasChild accepts
GetChild(n, name) == n.Children[name]

\* CanBeEmpty without the look at the children
CanBeEmptyAlways(n) == TRUE

\* SchemaNode.CanBeEmpty

CanBeEmpty(n) == \A c \in DOMAIN n.Children : ~n.Children[c].Required

RECURSIVE validateNoNestedBracesFrom(_, _, _)
validateNoNestedBracesFrom(content, from, depth) ==
    LET i == NextOf(content, from, {BS, LB, RB}) IN
    IF i >= Len(content)
    THEN IF depth # 0 THEN "unbalanced braces in inline content" ELSE "ok"
    ELSE IF IsEscape(content, i) THEN validateNoNestedBracesFrom(content, i + 2, depth)
    ELSE IF At(content, i) = LB
         THEN IF depth + 1 > 1 THEN "nested blocks cannot be inlined"
              ELSE validateNoNestedBracesFrom(content, i + 1, depth + 1)
    ELSE IF At(content, i) = RB THEN validateNoNestedBracesFrom(content, i + 1, depth - 1)
    ELSE validateNoNestedBracesFrom(content, i + 1, depth)

\* "ok", or the message of the error returned
ValidateNoNestedBraces(content) == validateNoNestedBracesFrom(content, 0, 0)

Schema_api ==
    SchemaNode(<<"@", "a", "p", "i">>, "BlockAnnotation", {"Required"},
        <<"@", "t", "i", "t", "l", "e">> :>
            SchemaNode(<<"@", "t", "i", "t", "l", "e">>, "ValueAnnotation", {"Required"}, NoChildren) @@
        <<"@", "v", "e", "r", "s", "i", "o", "n">> :>
            SchemaNode(<<"@", "v", "e", "r", "s", "i", "o", "n">>, "ValueAnnotation", {"Required"}, NoChildren) @@
        <<"@", "d", "e", "s", "c", "r", "i", "p", "t", "i", "o", "n">> :>
            SchemaNode(<<"@", "d", "e", "s", "c", "r", "i", "p", "t", "i", "o", "n">>, "ValueAnnotation", {"SupportsMultiline"}, NoChildren) @@
        <<"@", "t", "e", "r", "m", "s", "O", "f", "S", "e", "r", "v", "i", "c", "e">> :>
            SchemaNode(<<"@", "t", "e", "r", "m", "s", "O", "f", "S", "e", "r", "v", "i", "c", "e">>, "ValueAnnotation", {}, NoChildren) @@
        <<"@", "c", "o", "n", "t", "a", "c", "t">> :>
            SchemaNode(<<"@", "c", "o", "n", "t", "a", "c", "t">>, "BlockAnnotation", {},
                <<"@", "n", "a", "m", "e">> :>
                    SchemaNode(<<"@", "n", "a", "m", "e">>, "ValueAnnotation", {}, NoChildren) @@
                <<"@", "e", "m", "a", "i", "l">> :>
                    SchemaNode(<<"@", "e", "m", "a", "i", "l">>, "ValueAnnotation", {}, NoChildren) @@
                <<"@", "u", "r", "l">> :>
                    SchemaNode(<<"@", "u", "r", "l">>, "ValueAnnotation", {}, NoChildren)) @@
        <<"@", "l", "i", "c", "e", "n", "s", "e">> :>
            SchemaNode(<<"@", "l", "i", "c", "e", "n", "s", "e">>, "BlockAnnotation", {},
                <<"@", "n", "a", "m", "e">> :>
                    SchemaNode(<<"@", "n", "a", "m", "e">>, "ValueAnnotation", {}, NoChildren) @@
                <<"@", "u", "r", "l">> :>
                    SchemaNode(<<"@", "u", "r", "l">>, "ValueAnnotation", {}, NoChildren)) @@
        <<"@", "s", "e", "r", "v", "e", "r">> :>
            SchemaNode(<<"@", "s", "e", "r", "v", "e", "r">>, "BlockAnnotation", {"HasMetadata", "Repeatable"},
                <<"@", "d", "e", "s", "c", "r", "i", "p", "t", "i", "o", "n">> :>
                    SchemaNode(<<"@", "d", "e", "s", "c", "r", "i", "p", "t", "i", "o", "n">>, "ValueAnnotation", {"SupportsMultiline"}, NoChildren)) @@
        <<"@", "s", "e", "c", "u", "r", "i", "t", "y", "S", "c", "h", "e", "m", "e">> :>
            SchemaNode(<<"@", "s", "e", "c", "u", "r", "i", "t", "y", "S", "c", "h", "e", "m", "e">>, "BlockAnnotation", {"HasMetadata", "Repeatable"},
                <<"@", "t", "y", "p", "e">> :>
                    SchemaNode(<<"@", "t", "y", "p", "e">>, "ValueAnnotation", {"Required"}, NoChildren) @@
                <<"@", "s", "c", "h", "e", "m", "e">> :>
                    SchemaNode(<<"@", "s", "c", "h", "e", "m", "e">>, "ValueAnnotation", {}, NoChildren) @@
                <<"@", "b", "e", "a", "r", "e", "r", "F", "o", "r", "m", "a", "t">> :>
                    SchemaNode(<<"@", "b", "e", "a", "r", "e", "r", "F", "o", "r", "m", "a", "t">>, "ValueAnnotation", {}, NoChildren) @@
                <<"@", "i", "n">> :>
                    SchemaNode(<<"@", "i", "n">>, "ValueAnnotation", {}, NoChildren) @@
                <<"@", "n", "a", "m", "e">> :>
                    SchemaNode(<<"@", "n", "a", "m", "e">>, "ValueAnnotation", {}, NoChildren) @@
                <<"@", "d", "e", "s", "c", "r", "i", "p", "t", "i", "o", "n">> :>
                    SchemaNode(<<"@", "d", "e", "s", "c", "r", "i", "p", "t", "i", "o", "n">>, "ValueAnnotation", {"SupportsMultiline"}, NoChildren)) @@
        <<"@", "s", "e", "c", "u", "r", "i", "t", "y">> :>
            SchemaNode(<<"@", "s", "e", "c", "u", "r", "i", "t", "y">>, "BlockAnnotation", {"Repeatable"},
                <<"@", "w", "i", "t", "h">> :>
                    SchemaNode(<<"@", "w", "i", "t", "h">>, "SubCommand", {"HasMetadata", "Repeatable"},
                        <<"@", "s", "c", "o", "p", "e">> :>
                            SchemaNode(<<"@", "s", "c", "o", "p", "e">>, "ValueAnnotation", {"Repeatable"}, NoChildren))) @@
        <<"@", "t", "a", "g">> :>
            SchemaNode(<<"@", "t", "a", "g">>, "BlockAnnotation", {"HasMetadata", "Repeatable"},
                <<"@", "d", "e", "s", "c", "r", "i", "p", "t", "i", "o", "n">> :>
                    SchemaNode(<<"@", "d", "e", "s", "c", "r", "i", "p", "t", "i", "o", "n">>, "ValueAnnotation", {"SupportsMultiline"}, NoChildren)) @@
        <<"@", "d", "e", "f", "a", "u", "l", "t", "C", "o", "n", "t", "e", "n", "t", "T", "y", "p", "e">> :>
            SchemaNode(<<"@", "d", "e", "f", "a", "u", "l", "t", "C", "o", "n", "t", "e", "n", "t", "T", "y", "p", "e">>, "ValueAnnotation", {}, NoChildren))

Schema_endpoint ==
    SchemaNode(<<"@", "e", "n", "d", "p", "o", "i", "n", "t">>, "BlockAnnotation", {"HasMetadata"},
        <<"@", "o", "p", "e", "r", "a", "t", "i", "o", "n", "I", "D">> :>
            SchemaNode(<<"@", "o", "p", "e", "r", "a", "t", "i", "o", "n", "I", "D">>, "ValueAnnotation", {}, NoChildren) @@
        <<"@", "s", "u", "m", "m", "a", "r", "y">> :>
            SchemaNode(<<"@", "s", "u", "m", "m", "a", "r", "y">>, "ValueAnnotation", {}, NoChildren) @@
        <<"@", "d", "e", "s", "c", "r", "i", "p", "t", "i", "o", "n">> :>
            SchemaNode(<<"@", "d", "e", "s", "c", "r", "i", "p", "t", "i", "o", "n">>, "ValueAnnotation", {"SupportsMultiline"}, NoChildren) @@
        <<"@", "t", "a", "g">> :>
            SchemaNode(<<"@", "t", "a", "g">>, "ReferenceAnnotation", {"Repeatable"}, NoChildren) @@
        <<"@", "d", "e", "p", "r", "e", "c", "a", "t", "e", "d">> :>
            SchemaNode(<<"@", "d", "e", "p", "r", "e", "c", "a", "t", "e", "d">>, "FlagAnnotation", {}, NoChildren) @@
        <<"@", "a", "u", "t", "h">> :>
            SchemaNode(<<"@", "a", "u", "t", "h">>, "ValueAnnotation", {}, NoChildren) @@
        <<"@", "p", "a", "t", "h">> :>
            SchemaNode(<<"@", "p", "a", "t", "h">>, "ReferenceAnnotation", {"Repeatable"}, NoChildren) @@
        <<"@", "q", "u", "e", "r", "y">> :>
            SchemaNode(<<"@", "q", "u", "e", "r", "y">>, "ReferenceAnnotation", {"Repeatable"}, NoChildren) @@
        <<"@", "h", "e", "a", "d", "e", "r">> :>
            SchemaNode(<<"@", "h", "e", "a", "d", "e", "r">>, "ReferenceAnnotation", {"Repeatable"}, NoChildren) @@
        <<"@", "c", "o", "o", "k", "i", "e">> :>
            SchemaNode(<<"@", "c", "o", "o", "k", "i", "e">>, "ReferenceAnnotation", {"Repeatable"}, NoChildren) @@
        <<"@", "r", "e", "q", "u", "e", "s", "t">> :>
            SchemaNode(<<"@", "r", "e", "q", "u", "e", "s", "t">>, "BlockAnnotation", {},
                <<"@", "c", "o", "n", "t", "e", "n", "t", "T", "y", "p", "e">> :>
                    SchemaNode(<<"@", "c", "o", "n", "t", "e", "n", "t", "T", "y", "p", "e">>, "ValueAnnotation", {}, NoChildren) @@
                <<"@", "b", "o", "d", "y">> :>
                    SchemaNode(<<"@", "b", "o", "d", "y">>, "ValueAnnotation", {"HasMetadata"}, NoChildren) @@
                <<"@", "b", "i", "n", "d">> :>
                    SchemaNode(<<"@", "b", "i", "n", "d">>, "ValueAnnotation", {}, NoChildren)) @@
        <<"@", "r", "e", "s", "p", "o", "n", "s", "e">> :>
            SchemaNode(<<"@", "r", "e", "s", "p", "o", "n", "s", "e">>, "BlockAnnotation", {"HasMetadata", "Repeatable"},
                <<"@", "c", "o", "n", "t", "e", "n", "t", "T", "y", "p", "e">> :>
                    SchemaNode(<<"@", "c", "o", "n", "t", "e", "n", "t", "T", "y", "p", "e">>, "ValueAnnotation", {}, NoChildren) @@
                <<"@", "b", "o", "d", "y">> :>
                    SchemaNode(<<"@", "b", "o", "d", "y">>, "ValueAnnotation", {"HasMetadata"}, NoChildren) @@
                <<"@", "b", "i", "n", "d">> :>
                    SchemaNode(<<"@", "b", "i", "n", "d">>, "ValueAnnotation", {}, NoChildren) @@
                <<"@", "d", "e", "s", "c", "r", "i", "p", "t", "i", "o", "n">> :>
                    SchemaNode(<<"@", "d", "e", "s", "c", "r", "i", "p", "t", "i", "o", "n">>, "ValueAnnotation", {"SupportsMultiline"}, NoChildren) @@
                <<"@", "h", "e", "a", "d", "e", "r">> :>
                    SchemaNode(<<"@", "h", "e", "a", "d", "e", "r">>, "ValueAnnotation", {"Repeatable"}, NoChildren)))

Schema_field ==
    SchemaNode(<<"@", "f", "i", "e", "l", "d">>, "BlockAnnotation", {},
        <<"@", "d", "e", "s", "c", "r", "i", "p", "t", "i", "o", "n">> :>
            SchemaNode(<<"@", "d", "e", "s", "c", "r", "i", "p", "t", "i", "o", "n">>, "ValueAnnotation", {"SupportsMultiline"}, NoChildren) @@
        <<"@", "f", "o", "r", "m", "a", "t">> :>
            SchemaNode(<<"@", "f", "o", "r", "m", "a", "t">>, "ValueAnnotation", {}, NoChildren) @@
        <<"@", "e", "x", "a", "m", "p", "l", "e">> :>
            SchemaNode(<<"@", "e", "x", "a", "m", "p", "l", "e">>, "ValueAnnotation", {}, NoChildren) @@
        <<"@", "e", "n", "u", "m">> :>
            SchemaNode(<<"@", "e", "n", "u", "m">>, "ValueAnnotation", {}, NoChildren) @@
        <<"@", "d", "e", "f", "a", "u", "l", "t">> :>
            SchemaNode(<<"@", "d", "e", "f", "a", "u", "l", "t">>, "ValueAnnotation", {}, NoChildren) @@
        <<"@", "m", "i", "n", "i", "m", "u", "m">> :>
            SchemaNode(<<"@", "m", "i", "n", "i", "m", "u", "m">>, "ValueAnnotation", {}, NoChildren) @@
        <<"@", "m", "a", "x", "i", "m", "u", "m">> :>
            SchemaNode(<<"@", "m", "a", "x", "i", "m", "u", "m">>, "ValueAnnotation", {}, NoChildren) @@
        <<"@", "m", "i", "n", "L", "e", "n", "g", "t", "h">> :>
            SchemaNode(<<"@", "m", "i", "n", "L", "e", "n", "g", "t", "h">>, "ValueAnnotation", {}, NoChildren) @@
        <<"@", "m", "a", "x", "L", "e", "n", "g", "t", "h">> :>
            SchemaNode(<<"@", "m", "a", "x", "L", "e", "n", "g", "t", "h">>, "ValueAnnotation", {}, NoChildren) @@
        <<"@", "m", "i", "n", "I", "t", "e", "m", "s">> :>
            SchemaNode(<<"@", "m", "i", "n", "I", "t", "e", "m", "s">>, "ValueAnnotation", {}, NoChildren) @@
        <<"@", "m", "a", "x", "I", "t", "e", "m", "s">> :>
            SchemaNode(<<"@", "m", "a", "x", "I", "t", "e", "m", "s">>, "ValueAnnotation", {}, NoChildren) @@
        <<"@", "u", "n", "i", "q", "u", "e", "I", "t", "e", "m", "s">> :>
            SchemaNode(<<"@", "u", "n", "i", "q", "u", "e", "I", "t", "e", "m", "s">>, "FlagAnnotation", {}, NoChildren) @@
        <<"@", "p", "a", "t", "t", "e", "r", "n">> :>
            SchemaNode(<<"@", "p", "a", "t", "t", "e", "r", "n">>, "ValueAnnotation", {}, NoChildren) @@
        <<"@", "d", "e", "p", "r", "e", "c", "a", "t", "e", "d">> :>
            SchemaNode(<<"@", "d", "e", "p", "r", "e", "c", "a", "t", "e", "d">>, "FlagAnnotation", {}, NoChildren))

Schema_schema ==
    SchemaNode(<<"@", "s", "c", "h", "e", "m", "a">>, "BlockAnnotation", {},
        <<"@", "d", "e", "s", "c", "r", "i", "p", "t", "i", "o", "n">> :>
            SchemaNode(<<"@", "d", "e", "s", "c", "r", "i", "p", "t", "i", "o", "n">>, "ValueAnnotation", {"SupportsMultiline"}, NoChildren) @@
        <<"@", "d", "e", "p", "r", "e", "c", "a", "t", "e", "d">> :>
            SchemaNode(<<"@", "d", "e", "p", "r", "e", "c", "a", "t", "e", "d">>, "FlagAnnotation", {}, NoChildren))

Schema_path ==
    SchemaNode(<<"@", "p", "a", "t", "h">>, "MarkerAnnotation", {}, NoChildren)

Schema_query ==
    SchemaNode(<<"@", "q", "u", "e", "r", "y">>, "MarkerAnnotation", {}, NoChildren)

Schema_header ==
    SchemaNode(<<"@", "h", "e", "a", "d", "e", "r">>, "MarkerAnnotation", {}, NoChildren)

Schema_cookie ==
    SchemaNode(<<"@", "c", "o", "o", "k", "i", "e">>, "MarkerAnnotation", {}, NoChildren)

AnnotationSchema ==
    SchemaNode(<<"r", "o", "o", "t">>, "BlockAnnotation", {},
        <<"@", "a", "p", "i">> :> Schema_api @@
        <<"@", "e", "n", "d", "p", "o", "i", "n", "t">> :> Schema_endpoint @@
        <<"@", "f", "i", "e", "l", "d">> :> Schema_field @@
        <<"@", "s", "c", "h", "e", "m", "a">> :> Schema_schema @@
        <<"@", "p", "a", "t", "h">> :> Schema_path @@
        <<"@", "q", "u", "e", "r", "y">> :> Schema_query @@
        <<"@", "h", "e", "a", "d", "e", "r">> :> Schema_header @@
        <<"@", "c", "o", "o", "k", "i", "e">> :> Schema_cookie)
-----------------------------------------------------------------------------
(* ParsedAnnotation and the block parser *)

NewParsedAnnotation(name, lines) ==
    [Name |-> name,
     Metadata |-> <<>>,
     Children |-> <<>>,
     RepeatedChildren |-> <<>>,
     Value |-> <<>>,
     IsFlag |-> FALSE,
     Lines |-> lines]

Ok(pa) == [ok |-> TRUE, pa |-> pa]

\* ParsedAnnotation.GetChildValue
GetChildValue(pa, name) ==
    IF name \in DOMAIN pa.Children THEN pa.Children[name].Value ELSE <<>>

\* ParsedAnnotation.GetRepeatedChildren
GetRepeatedChildren(pa, name) ==
    IF name \in DOMAIN pa.RepeatedChildren THEN pa.RepeatedChildren[name] ELSE <<>>

\* extractAnnotationName: the name ends at the first space, tab or {
extractAnnotationName(line) ==
    LET t == TrimSpace(line)
        stops == {i \in 1..Len(t) : t[i] \in {SP, LB, TAB}}
    IN  IF ~HasPrefix(t, <<AT>>) THEN <<>>
        ELSE IF stops = {} THEN t
        ELSE SubSeq(t, 1, (CHOOSE i \in stops : \A j \in stops : i <= j) - 1)

\* isInlineContent, the loop at index from with count unescaped @ seen so far
RECURSIVE isInlineContentFrom(_, _, _)
isInlineContentFrom(content, from, count) ==
    LET i == NextOf(content, from, {BS, AT}) IN
    IF i >= Len(content) THEN FALSE
    ELSE IF IsEscape(content, i) THEN isInlineContentFrom(content, i + 2, count)
    ELSE IF At(content, i) = AT
         THEN IF count + 1 > 1 THEN TRUE ELSE isInlineContentFrom(content, i + 1, count + 1)
    ELSE isInlineContentFrom(content, i + 1, count)

\* isInlineContent: more than one unescaped @
isInlineContent(content) == isInlineContentFrom(content, 0, 0)

\* "Store in result" of parseChildren and parseInlineChildren: the last write wins
StoreChildOverwrite(result, childNode, annotationName, child) ==
    IF childNode.Repeatable
    THEN Ok([result EXCEPT !.RepeatedChildren =
                (annotationName :> Append(GetRepeatedChildren(result, annotationName), child))
                    @@ result.RepeatedChildren])
    ELSE Ok([result EXCEPT !.Children = (annotationName :> child) @@ result.Children])

\* "Store in result" of parseChildren and parseInlineChildren: everything under Children
StoreChildAllSingle(result, childNode, annotationName, child) ==
    IF annotationName \in DOMAIN result.Children
    THEN Failed("appears multiple times but is not repeatable")
    ELSE Ok([result EXCEPT !.Children = (annotationName :> child) @@ result.Children])

\* "Store in result" of parseChildren and parseInlineChildren
StoreChild(result, childNode, annotationName, child) ==
    IF childNode.Repeatable
    THEN Ok([result EXCEPT !.RepeatedChildren =
                (annotationName :> Append(GetRepeatedChildren(result, annotationName), child))
                    @@ result.RepeatedChildren])
    ELSE IF annotationName \in DOMAIN result.Children
         THEN Failed("appears multiple times but is not repeatable")
         ELSE Ok([result EXCEPT !.Children = (annotationName :> child) @@ result.Children])

\* parseInlineChildren, the body of the loop for one part that names a declared child
inlineChild(part, spaceIdx, annotationName, childNode) ==
    LET value == IF spaceIdx = -1 THEN <<>> ELSE TrimSpace(From(part, spaceIdx + 1))
        unescapedValue == UnescapeValue(value)
    IN  IF childNode.Type = "SubCommand" /\ DOMAIN childNode.Children # {}
           /\ ContainsUnescapedBrace(value)
        THEN Failed("sub-commands with sub-blocks cannot be inlined")
        ELSE Ok([Name |-> annotationName,
                 Metadata |-> IF childNode.HasMetadata THEN unescapedValue ELSE <<>>,
                 Children |-> <<>>,
                 RepeatedChildren |-> <<>>,
                 Value |-> unescapedValue,
                 IsFlag |-> childNode.Type = "FlagAnnotation",
                 Lines |-> <<>>])

\* parseInlineChildren, the loop over parts from the 0-based index i
RECURSIVE inlinePartsFrom(_, _, _, _)
inlinePartsFrom(parts, i, parentNode, result) ==
    IF i >= Len(parts) THEN Ok(result)
    ELSE
        LET raw == At(parts, i)
            part == TrimSpace(RestoreEscapedAt(raw))
            spaceIdx == IndexAnySpaceTab(part)
            annotationName == <<AT>> \o (IF spaceIdx = -1 THEN part ELSE Slice(part, 0, spaceIdx))
        IN  IF i = 0 /\ TrimSpace(raw) = <<>> THEN inlinePartsFrom(parts, i + 1, parentNode, result)
            ELSE IF part = <<>> THEN inlinePartsFrom(parts, i + 1, parentNode, result)
            ELSE IF ~HasChild(parentNode, annotationName)
                 THEN Failed("unknown annotation")
            ELSE LET childNode == GetChild(parentNode, annotationName)
                     child == inlineChild(part, spaceIdx, annotationName, childNode)
                     stored == StoreChild(result, childNode, annotationName, child.pa)
                 IN  IF ~child.ok THEN child
                     ELSE IF ~stored.ok THEN stored
                     ELSE inlinePartsFrom(parts, i + 1, parentNode, stored.pa)

parseInlineChildren(content, parentNode, result) ==
    IF content = <<>> THEN Ok(result)
    ELSE inlinePartsFrom(Split(ProtectEscapedAt(content), AT), 0, parentNode, result)

ParseInlineAnnotation(line, annotationName, n) ==
    LET verdict == ValidateNoNestedBraces(line)
        result == NewParsedAnnotation(annotationName, <<line>>)
        openIdx == Index(line, LB)
        closeIdx == LastIndex(line, RB)
        content == TrimSpace(Slice(line, openIdx + 1, closeIdx))
    IN  IF verdict # "ok" THEN Failed(verdict)
        ELSE IF openIdx = -1 \/ closeIdx = -1 \/ openIdx >= closeIdx
             THEN Failed("invalid inline format")
        ELSE IF content = <<>>
             THEN IF ~CanBeEmpty(n) THEN Failed("cannot be empty (has required children)")
                  ELSE Ok(result)
        ELSE parseInlineChildren(content, n, result)

\* a collection of the lines of a child block that hands back the line it started from
collectBlockStay(lines, i, braceDepth, annotationLines) ==
    [i |-> i - 1, lines |-> annotationLines]

\* parseChildren, the loop collecting the lines of a child block: the index after
\* the block and the lines collected
RECURSIVE collectBlock(_, _, _, _)
collectBlock(lines, i, braceDepth, annotationLines) ==
    IF i < Len(lines) /\ braceDepth > 0
    THEN collectBlock(lines, i + 1, braceDepth + CountUnescapedBraces(At(lines, i)),
                      Append(annotationLines, At(lines, i)))
    ELSE [i |-> i, lines |-> annotationLines]

\* a sibling test that finds no sibling
IsSiblingStartNever(parentNode, nextLine) == FALSE

\* parseChildren, the sibling test that ends a multi-line value
IsSiblingStart(parentNode, nextLine) ==
    /\ StartsWithUnescapedAt(nextLine)
    /\ HasChild(parentNode, extractAnnotationName(nextLine))

\* parseChildren, the loop collecting the continuation lines of a multi-line value
RECURSIVE collectContinuation(_, _, _, _)
collectContinuation(lines, i, parentNode, annotationLines) ==
    IF i >= Len(lines) THEN [i |-> i, lines |-> annotationLines]
    ELSE IF TrimSpace(At(lines, i)) = <<>>
         THEN collectContinuation(lines, i + 1, parentNode, annotationLines)
    ELSE IF IsSiblingStart(parentNode, At(lines, i))
         THEN [i |-> i, lines |-> annotationLines]
    ELSE collectContinuation(lines, i + 1, parentNode, Append(annotationLines, At(lines, i)))

\* ParseAnnotationBlock, value annotations: the first line's text, then the
\* continuation lines of a multi-line value
RECURSIVE continuationFrom(_, _, _)
continuationFrom(lines, i, value) ==
    IF i >= Len(lines) THEN value
    ELSE LET continuation == TrimSpace(At(lines, i))
         IN  continuationFrom(lines, i + 1,
                 IF continuation # <<>> THEN value \o <<NL>> \o continuation ELSE value)

RECURSIVE ParseAnnotationBlock(_, _, _)
RECURSIVE parseChildrenFrom(_, _, _, _)

\* parseChildren with the schema lookup left out: a line whose name is not declared
\* is passed over
unknownChildSkipped(lines, i, parentNode, result) ==
    parseChildrenFrom(lines, i + 1, parentNode, result)

\* parseChildren, "if childNode == nil": the error for line i
unknownChild(lines, i, parentNode, result) == Failed("unknown annotation")

\* parseChildren, the loop from the 0-based line index i
parseChildrenFrom(lines, i, parentNode, result) ==
    IF i >= Len(lines) THEN Ok(result)
    ELSE
        LET line == At(lines, i)
            annotationName == extractAnnotationName(line)
        IN  IF TrimSpace(line) = <<>> THEN parseChildrenFrom(lines, i + 1, parentNode, result)
            ELSE IF ~HasPrefix(line, <<AT>>) THEN parseChildrenFrom(lines, i + 1, parentNode, result)
            ELSE IF annotationName = <<>> THEN parseChildrenFrom(lines, i + 1, parentNode, result)
            ELSE IF ~HasChild(parentNode, annotationName)
                 THEN unknownChild(lines, i, parentNode, result)
            ELSE
                LET childNode == GetChild(parentNode, annotationName)
                    blockPos == findBlockOpener(line)
                    got == IF blockPos >= 0
                           THEN collectBlock(lines, i + 1,
                                             countBracesFromPosition(line, blockPos), <<line>>)
                           ELSE IF childNode.SupportsMultiline
                           THEN collectContinuation(lines, i + 1, parentNode, <<line>>)
                           ELSE [i |-> i + 1, lines |-> <<line>>]
                    child == ParseAnnotationBlock(got.lines, annotationName, childNode)
                    stored == StoreChild(result, childNode, annotationName, child.pa)
                IN  IF ~child.ok THEN child
                    ELSE IF ~stored.ok THEN stored
                    ELSE parseChildrenFrom(lines, got.i, parentNode, stored.pa)

parseChildren(lines, parentNode, result) == parseChildrenFrom(lines, 0, parentNode, result)

\* ParseAnnotationBlock for a schema node n that is not nil
ParseAnnotationBlock(lines, annotationName, n) ==
    LET result == NewParsedAnnotation(annotationName, lines)
        withMeta == IF n.HasMetadata /\ Len(lines) > 0
                    THEN [result EXCEPT !.Metadata = ExtractMetadata(At(lines, 0), annotationName)]
                    ELSE result
        firstValue == TrimSpace(TrimPrefix(At(lines, 0), annotationName))
        content == ParseBracedBlock(lines)
    IN  IF n.Type \in {"MarkerAnnotation", "FlagAnnotation"}
        THEN Ok([result EXCEPT !.IsFlag = TRUE])
        ELSE IF n.Type = "ValueAnnotation"
        THEN IF Len(lines) > 0
             THEN Ok([withMeta EXCEPT !.Value =
                        UnescapeValue(IF n.SupportsMultiline
                                      THEN continuationFrom(lines, 1, firstValue)
                                      ELSE firstValue)])
             ELSE Ok(withMeta)
        ELSE IF n.Type = "ReferenceAnnotation"
        THEN IF Len(lines) > 0 THEN Ok([withMeta EXCEPT !.Value = firstValue]) ELSE Ok(withMeta)
        ELSE IF ~content.ok THEN content
        ELSE IF Len(content.content) = 0
             THEN IF ~CanBeEmpty(n) THEN Failed("cannot be empty (has required children)")
                  ELSE Ok(withMeta)
        ELSE IF Len(content.content) = 1 /\ isInlineContent(At(content.content, 0))
             THEN parseInlineChildren(At(content.content, 0), n, withMeta)
        ELSE parseChildren(content.content, n, withMeta)

-----------------------------------------------------------------------------
(* Parser inputs: a block of one target annotation, written from child chunks *)

MaxChunks == 2

Targets == {"field", "api", "endpoint", "security", "securityScheme", "with"}

\* the opening line of a target, without its block delimiter
OpenerOf(t) ==
    CASE t = "field" -> <<"@", "f", "i", "e", "l", "d">>
      [] t = "api" -> <<"@", "a", "p", "i">>
      [] t = "endpoint" -> <<"@", "e", "n", "d", "p", "o", "i", "n", "t", " ", "G", "E", "T", " ", "/", "u">>
      [] t = "security" -> <<"@", "s", "e", "c", "u", "r", "i", "t", "y">>
      [] t = "securityScheme" -> <<"@", "s", "e", "c", "u", "r", "i", "t", "y", "S", "c", "h", "e", "m", "e", " ", "k">>
      [] t = "with" -> <<"@", "w", "i", "t", "h", " ", "o">>

\* the child chunks (one line, or the lines of one nested block) a target's block is built from
ChunkPool(t) ==
    CASE t = "field" ->
           {<<<<"@", "d", "e", "s", "c", "r", "i", "p", "t", "i", "o", "n", " ", "a">>>>,
            <<<<"@", "f", "o", "r", "m", "a", "t", " ", "b">>>>,
            <<<<"@", "d", "e", "p", "r", "e", "c", "a", "t", "e", "d">>>>,
            <<<<"@", "b", "o", "g", "u", "s", " ", "z">>>>,
            <<<<"m", "o", "r", "e">>>>,
            <<<<"@", "p", "a", "t", "t", "e", "r", "n", " ", "x", "\\", "{", "2", "\\", "}">>>>,
            <<<<"@", "e", "x", "a", "m", "p", "l", "e", " ", "\\", "@", "h">>>>,
            <<<<"@", "e", "x", "a", "m", "p", "l", "e", " ", "a", "@", "b">>>>}
      [] t = "api" ->
           {<<<<"@", "t", "i", "t", "l", "e", " ", "T">>>>,
            <<<<"@", "v", "e", "r", "s", "i", "o", "n", " ", "1">>>>,
            <<<<"@", "c", "o", "n", "t", "a", "c", "t", " ", "{">>, <<"@", "n", "a", "m", "e", " ", "n">>, <<"}">>>>,
            <<<<"@", "s", "e", "r", "v", "e", "r", " ", "u", " ", "{", " ", "@", "d", "e", "s", "c", "r", "i", "p", "t", "i", "o", "n", " ", "d", " ", "}">>>>,
            <<<<"@", "d", "e", "s", "c", "r", "i", "p", "t", "i", "o", "n", " ", "a">>>>,
            <<<<"@", "b", "o", "g", "u", "s", " ", "z">>>>}
      [] t = "endpoint" ->
           {<<<<"@", "s", "u", "m", "m", "a", "r", "y", " ", "s">>>>,
            <<<<"@", "r", "e", "s", "p", "o", "n", "s", "e", " ", "2", "0", "0", " ", "{">>, <<"@", "d", "e", "s", "c", "r", "i", "p", "t", "i", "o", "n", " ", "d">>, <<"}">>>>,
            <<<<"@", "r", "e", "s", "p", "o", "n", "s", "e", " ", "2", "0", "0", " ", "{">>, <<"@", "b", "o", "d", "y", " ", "U">>, <<"}">>>>,
            <<<<"@", "t", "a", "g", " ", "a", "\\", "{", "b">>>>,
            <<<<"@", "d", "e", "p", "r", "e", "c", "a", "t", "e", "d">>>>,
            <<<<"@", "d", "e", "s", "c", "r", "i", "p", "t", "i", "o", "n", " ", "a">>>>}
      [] t = "security" ->
           {<<<<"@", "w", "i", "t", "h", " ", "o", " ", "{">>, <<"@", "s", "c", "o", "p", "e", " ", "r">>, <<"}">>>>,
            <<<<"@", "w", "i", "t", "h", " ", "o">>>>,
            <<<<"@", "s", "c", "o", "p", "e", " ", "r">>>>}
      [] t = "securityScheme" ->
           {<<<<"@", "t", "y", "p", "e", " ", "h", "t", "t", "p">>>>,
            <<<<"@", "s", "c", "h", "e", "m", "e", " ", "b">>>>,
            <<<<"@", "d", "e", "s", "c", "r", "i", "p", "t", "i", "o", "n", " ", "a">>>>}
      [] t = "with" ->
           {<<<<"@", "s", "c", "o", "p", "e", " ", "r">>>>,
            <<<<"@", "b", "o", "g", "u", "s", " ", "z">>>>}

\* the schema node a target is parsed against
TargetNode(t) ==
    CASE t = "field" -> Schema_field
      [] t = "api" -> Schema_api
      [] t = "endpoint" -> Schema_endpoint
      [] t = "security" -> Schema_api.Children[<<"@", "s", "e", "c", "u", "r", "i", "t", "y">>]
      [] t = "securityScheme" -> Schema_api.Children[<<"@", "s", "e", "c", "u", "r", "i", "t", "y", "S", "c", "h", "e", "m", "e">>]
      [] t = "with" -> Schema_api.Children[<<"@", "s", "e", "c", "u", "r", "i", "t", "y">>].Children[<<"@", "w", "i", "t", "h">>]

ChunkLists(t) == UNION {[1..n -> ChunkPool(t)] : n \in 0..MaxChunks}

RECURSIVE Flatten(_)
Flatten(chunks) == IF chunks = <<>> THEN <<>> ELSE Head(chunks) \o Flatten(Tail(chunks))

RECURSIVE JoinSpace(_)
JoinSpace(ls) == IF ls = <<>> THEN <<>> ELSE <<SP>> \o Head(ls) \o JoinSpace(Tail(ls))

\* "@x {" / one line per child line / "}"
MultiForm(t, chunks) == <<OpenerOf(t) \o <<SP, LB>>>> \o Flatten(chunks) \o <<<<RB>>>>

\* "@x { child child }"
InlineForm(t, chunks) == OpenerOf(t) \o <<SP, LB>> \o JoinSpace(Flatten(chunks)) \o <<SP, RB>>

NotRun == [ok |-> FALSE, err |-> "not run"]
Ran(r) == r.ok \/ r.err # "not run"

NoComment == [present |-> FALSE, lines |-> <<>>]

parserVars == <<node, kids, multiOut, inlineOut, annOut>>
braceVars == <<meta, ending, body, bracedOut, metaOut>>
pipelineVars == <<comment, outputDir, stage, ran, failedAt, parsed, written>>
runsVars == <<functionComments, structComments, runs>>
resolverVars == <<schemaNames, typeCache, call, resolvedFields, calls>>
packageVars == <<parsedPackage, resolvedPackage, validation>>
genericVars == <<decls, extracted, parsedSchemas, resolvedSchemas, components>>
escapeVars == <<literal, escaped, unescaped>>
validateVars == <<packageAPI, ended>>
layoutVars == <<layout, laidOut>>
descendVars == <<descent>>
framesVars == <<frames, outcome>>
extraVars == <<genericVars, escapeVars, validateVars, layoutVars, descendVars, framesVars>>
besideGeneric == <<parserVars, braceVars, pipelineVars, runsVars, resolverVars, packageVars, escapeVars, validateVars, layoutVars, descendVars, framesVars>>
besideEscape == <<parserVars, braceVars, pipelineVars, runsVars, resolverVars, packageVars, genericVars, validateVars, layoutVars, descendVars, framesVars>>
besideValidate == <<parserVars, braceVars, pipelineVars, runsVars, resolverVars, packageVars, genericVars, escapeVars, layoutVars, descendVars, framesVars>>
besideLayout == <<parserVars, braceVars, pipelineVars, runsVars, resolverVars, packageVars, genericVars, escapeVars, validateVars, descendVars, framesVars>>
besideDescend == <<parserVars, braceVars, pipelineVars, runsVars, resolverVars, packageVars, genericVars, escapeVars, validateVars, layoutVars, framesVars>>
besideFrames == <<parserVars, braceVars, pipelineVars, runsVars, resolverVars, packageVars, genericVars, escapeVars, validateVars, layoutVars, descendVars>>
laterVars == <<runsVars, resolverVars, packageVars, extraVars>>

BraceIdle ==
    /\ meta = <<>>
    /\ ending = <<>>
    /\ body = <<>>
    /\ bracedOut = NotRun
    /\ metaOut = NotRun
PipelineIdle ==
    /\ comment = NoComment
    /\ outputDir = <<".">>
    /\ stage = "idle"
    /\ ran = <<>>
    /\ failedAt = "none"
    /\ parsed = NotRun
    /\ written = FALSE
RunsIdle ==
    /\ functionComments = <<>>
    /\ structComments = <<>>
    /\ runs = <<>>
ResolverIdle ==
    /\ schemaNames = {}
    /\ typeCache = <<>>
    /\ call = NotRun
    /\ resolvedFields = NotRun
    /\ calls = 0
PackageIdle ==
    /\ parsedPackage = NotRun
    /\ resolvedPackage = NotRun
    /\ validation = NotRun
GenericIdle ==
    /\ decls = <<>>
    /\ extracted = NotRun
    /\ parsedSchemas = NotRun
    /\ resolvedSchemas = NotRun
    /\ components = NotRun
EscapeIdle ==
    /\ literal = <<>>
    /\ escaped = <<>>
    /\ unescaped = NotRun
ValidateIdle ==
    /\ packageAPI = [isNil |-> TRUE, Title |-> "", Version |-> "", Tags |-> <<>>]
    /\ ended = NotRun
LayoutIdle ==
    /\ layout = "spaced"
    /\ laidOut = NotRun
DescendIdle ==
    /\ descent = [fn |-> "", type |-> <<>>, cache |-> {}, at |-> <<>>, returned |-> TRUE]
FramesIdle ==
    /\ frames = <<>>
    /\ outcome = NotRun
BesideGenericIdle == EscapeIdle /\ ValidateIdle /\ LayoutIdle /\ DescendIdle /\ FramesIdle
BesideEscapeIdle == GenericIdle /\ ValidateIdle /\ LayoutIdle /\ DescendIdle /\ FramesIdle
BesideValidateIdle == GenericIdle /\ EscapeIdle /\ LayoutIdle /\ DescendIdle /\ FramesIdle
BesideLayoutIdle == GenericIdle /\ EscapeIdle /\ ValidateIdle /\ DescendIdle /\ FramesIdle
BesideDescendIdle == GenericIdle /\ EscapeIdle /\ ValidateIdle /\ LayoutIdle /\ FramesIdle
BesideFramesIdle == GenericIdle /\ EscapeIdle /\ ValidateIdle /\ LayoutIdle /\ DescendIdle
ExtraIdle == GenericIdle /\ EscapeIdle /\ ValidateIdle /\ LayoutIdle /\ DescendIdle /\ FramesIdle
LaterIdle == RunsIdle /\ ResolverIdle /\ PackageIdle /\ ExtraIdle
ParserIdle ==
    /\ node = "field"
    /\ kids = <<>>
    /\ multiOut = NotRun
    /\ inlineOut = NotRun
    /\ annOut = NotRun

InitParse ==
    /\ node \in Targets
    /\ kids \in ChunkLists(node)
    /\ multiOut = NotRun
    /\ inlineOut = NotRun
    /\ annOut = NotRun
    /\ BraceIdle
    /\ PipelineIdle
    /\ LaterIdle

\* ParseAnnotationBlock on the multi-line form of the block
BlockMulti ==
    /\ ~Ran(multiOut)
    /\ multiOut' = ParseAnnotationBlock(MultiForm(node, kids), TargetNode(node).Name,
                                        TargetNode(node))
    /\ UNCHANGED <<node, kids, inlineOut, annOut, braceVars, pipelineVars, laterVars>>

\* ParseAnnotationBlock on the one-line form of the block
BlockInline ==
    /\ ~Ran(inlineOut)
    /\ inlineOut' = ParseAnnotationBlock(<<InlineForm(node, kids)>>, TargetNode(node).Name,
                                         TargetNode(node))
    /\ UNCHANGED <<node, kids, multiOut, annOut, braceVars, pipelineVars, laterVars>>

\* ParseInlineAnnotation on the one-line form of the block
InlineAnnotation ==
    /\ ~Ran(annOut)
    /\ annOut' = ParseInlineAnnotation(InlineForm(node, kids), TargetNode(node).Name,
                                       TargetNode(node))
    /\ UNCHANGED <<node, kids, multiOut, inlineOut, braceVars, pipelineVars, laterVars>>

NextParse == BlockMulti \/ BlockInline \/ InlineAnnotation

SpecParse == InitParse /\ [][NextParse]_vars

-----------------------------------------------------------------------------
(* Brace-utility inputs: an opening line "@endpoint METADATA {" and the lines after it *)

MaxLines == 2

BlockName == <<"@", "e", "n", "d", "p", "o", "i", "n", "t">>

\* metadata of the opening line, without and with path-template braces
MetaPool ==
    {<<"G", "E", "T", " ", "/", "u">>,
     <<"G", "E", "T", " ", "/", "o", "/", "{", "i", "d", "}">>,
     <<"G", "E", "T", " ", "/", "{", "a", "}", "/", "p", "/", "{", "b", "}">>,
     <<"/", "{", "i", "d", "}">>}

\* how the opening line goes on after the metadata: a block delimiter, a block
\* written on the one line, or nothing
EndPool ==
    {<<" ", "{">>,
     <<"\t", "{">>,
     <<" ", "{", " ", "@", "a", " ", "x", " ", "}">>,
     <<" ", "{", " ", "}">>,
     <<" ", "{", " ", "@", "a", " ", "\\", "}", " ", "}">>,
     <<>>}

\* the lines after the opening line, as extractCommentBlock leaves them: trimmed
\* and not empty
BodyPool ==
    {<<"@", "a", " ", "x">>,
     <<"}">>,
     <<"@", "r", " ", "2", "0", "0", " ", "{">>,
     <<"a", "\\", "{", "b">>,
     <<"a", "\\", "}">>,
     <<"@", "p", " ", "/", "x", "/", "{", "i", "d", "}">>,
     <<"\\", "\\", "{">>}

BodyLists == UNION {[1..n -> BodyPool] : n \in 0..MaxLines}

OpeningLine == BlockName \o <<SP>> \o meta \o ending

\* the annotation lines handed to ParseBracedBlock
AnnotationLines == <<OpeningLine>> \o body

InitBrace ==
    /\ meta \in MetaPool
    /\ ending \in EndPool
    /\ body \in BodyLists
    /\ bracedOut = NotRun
    /\ metaOut = NotRun
    /\ ParserIdle
    /\ PipelineIdle
    /\ LaterIdle

\* ParseBracedBlock on the annotation lines
BracedBlock ==
    /\ ~Ran(bracedOut)
    /\ bracedOut' = ParseBracedBlock(AnnotationLines)
    /\ UNCHANGED <<meta, ending, body, metaOut, parserVars, pipelineVars, laterVars>>

\* ExtractMetadata on the opening line, with the block delimiter it found
Metadata ==
    /\ ~Ran(metaOut)
    /\ metaOut' = [ok |-> TRUE,
                   metadata |-> ExtractMetadata(OpeningLine, BlockName),
                   blockPos |-> findBlockOpener(TrimPrefix(OpeningLine, BlockName))]
    /\ UNCHANGED <<meta, ending, body, bracedOut, parserVars, pipelineVars, laterVars>>

NextBrace == BracedBlock \/ Metadata

SpecBrace == InitBrace /\ [][NextBrace]_vars

-----------------------------------------------------------------------------
(* Parser.Parse, the @api step, and the generate() pipeline *)

\* CommentBlock.GetAnnotationLines: the lines from the first one that starts with @
RECURSIVE annotationLinesFrom(_, _, _)
annotationLinesFrom(lines, i, inAnnotation) ==
    IF i >= Len(lines) THEN <<>>
    ELSE IF HasPrefix(At(lines, i), <<AT>>)
         THEN <<At(lines, i)>> \o annotationLinesFrom(lines, i + 1, TRUE)
    ELSE IF inAnnotation
         THEN <<At(lines, i)>> \o annotationLinesFrom(lines, i + 1, inAnnotation)
    ELSE annotationLinesFrom(lines, i + 1, inAnnotation)

GetAnnotationLines(cb) == IF ~cb.present THEN <<>> ELSE annotationLinesFrom(cb.lines, 0, FALSE)

\* Parser.parseAPI, "Convert to APIInfo": the required fields of the parsed block,
\* an error or the APIInfo
apiInfo(got) ==
    IF ~got.ok THEN got
    ELSE IF GetChildValue(got.pa, <<"@", "t", "i", "t", "l", "e">>) = <<>>
         THEN Failed("@api missing required @title")
    ELSE IF GetChildValue(got.pa, <<"@", "v", "e", "r", "s", "i", "o", "n">>) = <<>>
         THEN Failed("@api missing required @version")
    ELSE [ok |-> TRUE,
          API |-> [Title |-> GetChildValue(got.pa, <<"@", "t", "i", "t", "l", "e">>),
                   Version |-> GetChildValue(got.pa, <<"@", "v", "e", "r", "s", "i", "o", "n">>),
                   Description |-> GetChildValue(got.pa, <<"@", "d", "e", "s", "c", "r", "i", "p", "t", "i", "o", "n">>)]]

\* Parser.parseAPI on the annotation lines of the package comment
parseAPILines(lines) ==
    IF Len(lines) = 0 THEN Failed("no annotations found in package comments")
    ELSE apiInfo(ParseAnnotationBlock(lines, <<"@", "a", "p", "i">>, Schema_api))

\* Parser.parseAPI: an error, or the APIInfo
parseAPI(packageComments) ==
    IF ~packageComments.present THEN Failed("no package-level comments found")
    ELSE parseAPILines(GetAnnotationLines(packageComments))

\* the steps of Parser.Parse whose outcome depends on the type declarations of
\* the package
OtherParseSteps == {"ExtractComments", "parseSchemas", "parseParameters", "parseEndpoints"}

\* Parser.Parse after parseAPI has returned api, when failing names the one of the
\* later steps that returns an error, or is "none"
afterParseAPI(api, failing) ==
    IF ~api.ok THEN api
    ELSE IF failing # "none" THEN Failed(failing)
    ELSE api

\* Parser.Parse when failing names the one of the other steps that returns an
\* error, or is "none"
ParserParse(packageComments, failing) ==
    IF failing = "ExtractComments" THEN Failed("failed to extract comments")
    ELSE afterParseAPI(parseAPI(packageComments), failing)

\* the package doc comment: lines before the annotation, the opening line, the
\* children, the closing line
MaxApiChildren == 2

ApiOpeners == {<<"@", "a", "p", "i", " ", "{">>, <<"@", "s", "c", "h", "e", "m", "a", " ", "{">>}

ApiChildPool == {<<"@", "t", "i", "t", "l", "e", " ", "T">>, <<"@", "v", "e", "r", "s", "i", "o", "n", " ", "1">>, <<"@", "d", "e", "s", "c", "r", "i", "p", "t", "i", "o", "n", " ", "a">>}

CommentPool ==
    {NoComment, [present |-> TRUE, lines |-> <<<<"P", "a", "c", "k", "a", "g", "e", " ", "d", "o", "c">>>>]}
        \cup {[present |-> TRUE, lines |-> pre \o <<op>> \o children \o <<<<RB>>>>] :
                 pre \in {<<>>, <<<<"P", "a", "c", "k", "a", "g", "e", " ", "d", "o", "c">>>>},
                 op \in ApiOpeners,
                 children \in UNION {[1..n -> ApiChildPool] : n \in 0..MaxApiChildren}}

\* the steps of generate(), in the order of the code
Steps == <<"parse", "resolve", "validate", "generate", "render", "write">>

\* the position in generate() after the step has returned without an error
After(step) ==
    CASE step = "parse" -> "resolve"
      [] step = "resolve" -> "validate"
      [] step = "validate" -> "generate"
      [] step = "generate" -> "render"
      [] step = "render" -> "write"
      [] step = "write" -> "returned"

\* generate() going on to the next step after an error
afterErrorGoOn(step) == After(step)

\* generate(), "if err != nil { return ... }": the position after the step has
\* returned an error
afterError(step) == "returned"

InitPipeline ==
    /\ comment \in CommentPool
    /\ outputDir \in {<<".">>, <<"o", "u", "t">>}
    /\ stage = "parse"
    /\ ran = <<>>
    /\ failedAt = "none"
    /\ parsed = NotRun
    /\ written = FALSE
    /\ ParserIdle
    /\ BraceIdle
    /\ LaterIdle

\* a step of generate() that returns the error err, or "none"
Step(step, err) ==
    /\ stage = step
    /\ ran' = Append(ran, step)
    /\ IF err = "none"
       THEN stage' = After(step) /\ UNCHANGED failedAt
       ELSE stage' = afterError(step) /\ failedAt' = step

\* Step 1: p.Parse()
Parse ==
    \E failing \in OtherParseSteps \cup {"none"} :
        /\ parsed' = ParserParse(comment, failing)
        /\ Step("parse", IF parsed'.ok THEN "none" ELSE parsed'.err)
        /\ UNCHANGED <<comment, outputDir, written, parserVars, braceVars, laterVars>>

\* Step 2: resolver.NewResolver and r.Resolve
Resolve ==
    \E err \in {"none", "NewResolver", "Resolve"} :
        /\ Step("resolve", err)
        /\ UNCHANGED <<comment, outputDir, parsed, written, parserVars, braceVars, laterVars>>

\* Step 3: v.Validate
Validate ==
    \E err \in {"none", "Validate"} :
        /\ Step("validate", err)
        /\ UNCHANGED <<comment, outputDir, parsed, written, parserVars, braceVars, laterVars>>

\* Step 4: gen.Generate
Generate ==
    \E err \in {"none", "Generate"} :
        /\ Step("generate", err)
        /\ UNCHANGED <<comment, outputDir, parsed, written, parserVars, braceVars, laterVars>>

\* Step 5: gen.Render
Render ==
    \E err \in {"none", "Render"} :
        /\ Step("render", err)
        /\ UNCHANGED <<comment, outputDir, parsed, written, parserVars, braceVars, laterVars>>

\* Step 6: os.MkdirAll when the output has a directory, then os.WriteFile
Write ==
    \E err \in {"none", "MkdirAll", "WriteFile"} :
        /\ err = "MkdirAll" => outputDir \notin {<<".">>, <<>>}
        /\ Step("write", err)
        /\ written' = (err = "none")
        /\ UNCHANGED <<comment, outputDir, parsed, parserVars, braceVars, laterVars>>

NextPipeline == Parse \/ Resolve \/ Validate \/ Generate \/ Render \/ Write

SpecPipeline == InitPipeline /\ [][NextPipeline]_vars

-----------------------------------------------------------------------------
(* Properties of the block parser *)

\* the number of backslashes immediately before the 1-based position i
RECURSIVE BackslashesBefore(_, _)
BackslashesBefore(s, i) ==
    IF i > 1 /\ s[i - 1] = BS THEN 1 + BackslashesBefore(s, i - 1) ELSE 0

\* the character at the 1-based position i is c and is not escaped
LiteralAt(s, i, c) == s[i] = c /\ BackslashesBefore(s, i) % 2 = 0

HasLiteral(s, c) == \E i \in 1..Len(s) : LiteralAt(s, i, c)

\* the text from the 1-based position i up to the next space or tab
WordAt(s, i) ==
    LET stops == {j \in i..Len(s) : s[j] \in {SP, TAB}}
    IN  SubSeq(s, i, IF stops = {} THEN Len(s)
                     ELSE (CHOOSE j \in stops : \A m \in stops : j <= m) - 1)

\* the annotation name a line is written with: "@name" in front of a space, a
\* tab or a brace, or nothing when the line does not start with @
WrittenName(line) ==
    IF line = <<>> \/ line[1] # AT THEN <<>>
    ELSE LET w == WordAt(line, 1)
             braces == {j \in 1..Len(w) : w[j] = LB}
         IN  IF braces = {} THEN w
             ELSE SubSeq(w, 1, (CHOOSE j \in braces : \A m \in braces : j <= m) - 1)

Declared(t) == DOMAIN TargetNode(t).Children
ChildNode(t, name) == TargetNode(t).Children[name]

\* chunk k starts with an annotation the target's schema node does not declare
UnknownChunk(k) ==
    /\ WrittenName(kids[k][1]) # <<>>
    /\ WrittenName(kids[k][1]) \notin Declared(node)

\* chunk k starts with an annotation the target's schema node declares
DeclaredChunk(k) == WrittenName(kids[k][1]) \in Declared(node)

\* chunk j is a child with a multi-line value and every chunk after it, up to
\* and including chunk k, does not start with a declared sibling
ContinuationOf(j, k) ==
    /\ j < k
    /\ DeclaredChunk(j)
    /\ ChildNode(node, WrittenName(kids[j][1])).SupportsMultiline
    /\ ~HasLiteral(kids[j][1], LB)
    /\ \A m \in (j + 1)..k : ~DeclaredChunk(m)

\* the text between the braces of the one-line form
InlineContent == TrimSpace(JoinSpace(Flatten(kids)))

\* the one-line form holds an unescaped @ that starts a name the node does not declare
UnknownSegment ==
    \E i \in 1..Len(InlineContent) :
        /\ LiteralAt(InlineContent, i, AT)
        /\ WordAt(InlineContent, i) \notin Declared(node)

\* the one-line form is in inline format: more than one unescaped @ between the braces
InlineFormat ==
    Cardinality({i \in 1..Len(InlineContent) : LiteralAt(InlineContent, i, AT)}) > 1

\* the lines before chunk k parse on their own
PrefixParses(k) ==
    \/ k = 1
    \/ ParseAnnotationBlock(MultiForm(node, SubSeq(kids, 1, k - 1)),
                            TargetNode(node).Name, TargetNode(node)).ok

\* the inline half of C3: every segment with an undeclared name makes the parse fail
UnknownSegmentRejected ==
    /\ UnknownSegment /\ InlineFormat /\ Ran(inlineOut) => ~inlineOut.ok
    /\ UnknownSegment /\ Ran(annOut) => ~annOut.ok

\* C3 without the exception for multi-line values: in multi-line format a line
\* that starts with an undeclared annotation makes the parse fail wherever it occurs in the block, also
\* directly after a child with a multi-line value (with the unknown-annotation error
\* when the lines before it parse); in inline format so does every such segment
C3_UnknownAlwaysRejected ==
    /\ \A k \in 1..Len(kids) :
           UnknownChunk(k) /\ Ran(multiOut)
           => /\ ~multiOut.ok
              /\ PrefixParses(k) => multiOut.err = "unknown annotation"
    /\ UnknownSegmentRejected

\* C3 (amended): in multi-line format a line that starts with an undeclared
\* annotation and is not a continuation line of a preceding multi-line-value child
\* makes the parse fail, with the unknown-annotation error when the lines before it
\* parse; in inline format every segment with an undeclared name makes the parse fail
C3_UnknownRejected ==
    /\ \A k \in 1..Len(kids) :
           /\ UnknownChunk(k)
           /\ ~(\E j \in 1..(k - 1) : ContinuationOf(j, k))
           /\ Ran(multiOut)
           => /\ ~multiOut.ok
              /\ PrefixParses(k) => multiOut.err = "unknown annotation"
    /\ UnknownSegmentRejected

C3_Witness ==
    /\ Len(kids) = 2
    /\ DeclaredChunk(1)
    /\ UnknownChunk(2)
    /\ ~ContinuationOf(1, 2)
    /\ Ran(multiOut) /\ ~multiOut.ok /\ multiOut.err = "unknown annotation"
    /\ Ran(inlineOut) /\ ~inlineOut.ok /\ inlineOut.err = "unknown annotation"

\* the three parses of the block, in the order multi-line, inline branch, inline parser
AllOuts == <<multiOut, inlineOut, annOut>>

\* some child chunk opens a nested block with an unescaped {
NestedBlock == \E k \in 1..Len(kids) : \E l \in 1..Len(kids[k]) : HasLiteral(kids[k][l], LB)

\* C2: a block in inline format whose content holds an unescaped { opening a nested
\* block fails to parse, whatever the children are, under ParseInlineAnnotation and
\* under the inline branch of ParseAnnotationBlock
C2_NestedInlineRejected ==
    /\ NestedBlock /\ InlineFormat /\ Ran(inlineOut) => ~inlineOut.ok
    /\ NestedBlock /\ Ran(annOut) => ~annOut.ok

\* the tree without the debugging Lines: metadata, value, flag and children
RECURSIVE Tree(_)
Tree(pa) ==
    [Name |-> pa.Name,
     Metadata |-> pa.Metadata,
     Value |-> pa.Value,
     IsFlag |-> pa.IsFlag,
     Children |-> [nm \in DOMAIN pa.Children |-> Tree(pa.Children[nm])],
     RepeatedChildren |->
         [nm \in DOMAIN pa.RepeatedChildren |->
             [i \in 1..Len(pa.RepeatedChildren[nm]) |-> Tree(pa.RepeatedChildren[nm][i])]]]

\* every chunk is one line "@name value" of a declared child that is not a block,
\* and no value holds an unescaped @
PlainChildren ==
    \A k \in 1..Len(kids) :
        /\ Len(kids[k]) = 1
        /\ DeclaredChunk(k)
        /\ ChildNode(node, WrittenName(kids[k][1])).Type
               \in {"ValueAnnotation", "FlagAnnotation", "ReferenceAnnotation"}
        /\ \A i \in 2..Len(kids[k][1]) : ~LiteralAt(kids[k][1], i, AT)

\* C4: for a block of non-block children whose values hold no unescaped @, the
\* inline form and the multi-line form parse to the same tree: same metadata, same
\* singleton and repeated children in the same order, same value, metadata and flag
\* on every child
C4_InlineMultiEquivalent ==
    PlainChildren /\ Ran(multiOut) /\ Ran(inlineOut)
    => /\ multiOut.ok = inlineOut.ok
       /\ multiOut.ok => Tree(multiOut.pa) = Tree(inlineOut.pa)

\* every name under Children is a declared non-repeatable child, every name under
\* RepeatedChildren a declared repeatable child with at least one occurrence, at
\* every depth
RECURSIVE WellStored(_, _)
WellStored(pa, n) ==
    /\ DOMAIN pa.Children \cap DOMAIN pa.RepeatedChildren = {}
    /\ \A nm \in DOMAIN pa.Children :
           /\ nm \in DOMAIN n.Children
           /\ ~n.Children[nm].Repeatable
           /\ WellStored(pa.Children[nm], n.Children[nm])
    /\ \A nm \in DOMAIN pa.RepeatedChildren :
           /\ nm \in DOMAIN n.Children
           /\ n.Children[nm].Repeatable
           /\ Len(pa.RepeatedChildren[nm]) >= 1
           /\ \A i \in 1..Len(pa.RepeatedChildren[nm]) :
                  WellStored(pa.RepeatedChildren[nm][i], n.Children[nm])

\* the number of children stored in a tree, at every depth
RECURSIVE Stored(_)
RECURSIVE StoredIn(_, _)
StoredIn(f, names) ==
    IF names = {} THEN 0
    ELSE LET nm == CHOOSE x \in names : TRUE
         IN  1 + Stored(f[nm]) + StoredIn(f, names \ {nm})
RECURSIVE StoredSeq(_)
StoredSeq(s) == IF s = <<>> THEN 0 ELSE 1 + Stored(Head(s)) + StoredSeq(Tail(s))
RECURSIVE StoredInRepeated(_, _)
StoredInRepeated(f, names) ==
    IF names = {} THEN 0
    ELSE LET nm == CHOOSE x \in names : TRUE
         IN  StoredSeq(f[nm]) + StoredInRepeated(f, names \ {nm})
Stored(pa) ==
    StoredIn(pa.Children, DOMAIN pa.Children)
        + StoredInRepeated(pa.RepeatedChildren, DOMAIN pa.RepeatedChildren)

\* C6: in every tree a successful parse returns, at every depth and in both
\* formats, a child is stored under RepeatedChildren if and only if its schema node
\* is repeatable, and otherwise once under Children
C6_OneStorePerChild ==
    \A i \in 1..3 : AllOuts[i].ok => WellStored(AllOuts[i].pa, TargetNode(node))

C6_Witness ==
    /\ multiOut.ok /\ inlineOut.ok
    /\ DOMAIN multiOut.pa.Children # {}
    /\ DOMAIN multiOut.pa.RepeatedChildren # {}
    /\ \E nm \in DOMAIN multiOut.pa.RepeatedChildren :
           DOMAIN multiOut.pa.RepeatedChildren[nm][1].Children # {}
    /\ DOMAIN inlineOut.pa.Children # {}
    /\ DOMAIN inlineOut.pa.RepeatedChildren # {}

\* a non-repeatable declared child is written twice in the block
DuplicateSingle ==
    \E j, k \in 1..Len(kids) :
        /\ j < k
        /\ DeclaredChunk(j)
        /\ WrittenName(kids[j][1]) = WrittenName(kids[k][1])
        /\ ~ChildNode(node, WrittenName(kids[j][1])).Repeatable

\* C7: a block in which a non-repeatable child occurs twice fails to parse, in
\* inline and in multi-line format: no tree is returned
C7_DuplicateRejected ==
    DuplicateSingle => \A i \in 1..3 : ~AllOuts[i].ok

C7_Witness ==
    /\ DuplicateSingle
    /\ \A i \in 1..2 :
           Ran(AllOuts[i]) /\ AllOuts[i].err = "appears multiple times but is not repeatable"

\* the target's schema node has a required child
NeedsChild(t) == \E nm \in Declared(t) : ChildNode(t, nm).Required

\* C8: a block whose braces enclose nothing parses, to a tree without children, if
\* and only if its schema node has no required child; otherwise it fails
C8_EmptyBlock ==
    kids = <<>>
    => \A i \in 1..3 :
           Ran(AllOuts[i])
           => /\ AllOuts[i].ok <=> ~NeedsChild(node)
              /\ AllOuts[i].ok => Stored(AllOuts[i].pa) = 0
              /\ ~AllOuts[i].ok => AllOuts[i].err = "cannot be empty (has required children)"

C8_Witness ==
    /\ kids = <<>>
    /\ NeedsChild(node)
    /\ TargetNode(node).Type = "BlockAnnotation"
    /\ Ran(multiOut) /\ ~multiOut.ok
    /\ Ran(inlineOut) /\ ~inlineOut.ok

-----------------------------------------------------------------------------
(* Properties of the brace utilities *)

\* the 1-based position of the first { that follows a space or a tab, or 0
DelimiterOf(line) ==
    First({i \in 2..Len(line) : line[i] = LB /\ line[i - 1] \in {SP, TAB}}, 0)

\* the 1-based index of the first annotation line with a block delimiter, or 0
DelimiterLine == First({k \in 1..Len(AnnotationLines) : DelimiterOf(AnnotationLines[k]) > 0}, 0)

\* unescaped { minus unescaped } in a line, from the 1-based position from
NetBraces(line, from) ==
    Cardinality({i \in from..Len(line) : LiteralAt(line, i, LB)})
        - Cardinality({i \in from..Len(line) : LiteralAt(line, i, RB)})

\* the brace depth after line k, counted from the block delimiter
RECURSIVE DepthAfter(_)
DepthAfter(k) ==
    IF k = DelimiterLine
    THEN NetBraces(AnnotationLines[k], DelimiterOf(AnnotationLines[k]))
    ELSE DepthAfter(k - 1) + NetBraces(AnnotationLines[k], 1)

\* the depth returns to zero on line k, after being positive on every line before
ClosesAt(k) ==
    /\ DepthAfter(k) = 0
    /\ \A j \in DelimiterLine..(k - 1) : DepthAfter(j) > 0

\* C9: for annotation lines with a whitespace-prefixed block delimiter,
\* ParseBracedBlock returns content exactly when the depth of unescaped braces,
\* counted from the delimiter, returns to zero on some line, and the "unbalanced
\* braces" error otherwise, in particular when the lines end at a non-zero depth;
\* escaped braces do not count
C9_BalancedOrError ==
    DelimiterLine > 0 /\ Ran(bracedOut)
    => /\ bracedOut.ok <=> \E k \in DelimiterLine..Len(AnnotationLines) : ClosesAt(k)
       /\ bracedOut.ok => \A k \in DelimiterLine..Len(AnnotationLines) :
              ClosesAt(k) => Len(bracedOut.content) <= k
       /\ ~bracedOut.ok => bracedOut.err = "unbalanced braces"

\* some line of the block holds an escaped brace
EscapedBraceInBlock ==
    \E k \in 1..Len(body) : \E i \in 2..Len(body[k]) :
        body[k][i] \in {LB, RB} /\ ~LiteralAt(body[k], i, body[k][i])

C9_Witness ==
    /\ DelimiterLine = 1
    /\ EscapedBraceInBlock
    /\ bracedOut.ok
    /\ Len(bracedOut.content) = 1
    /\ Len(body) = 2

\* the lines end while the depth is not zero, and the error is returned
C9_WitnessUnbalanced ==
    /\ DelimiterLine = 1
    /\ Len(body) = 2
    /\ \A k \in 1..3 : DepthAfter(k) > 0
    /\ Ran(bracedOut)
    /\ ~bracedOut.ok

\* the metadata holds path-template braces
PathBraces == \E i \in 1..Len(meta) : meta[i] = LB

\* the opening line is "@name METADATA {": it goes on with a block delimiter
OpensBlock == ending # <<>>

\* the text without its braces
NoBraces(s) == SelectSeq(s, LAMBDA c : c \notin {LB, RB})

\* C10: on an opening line "@name METADATA {" whose metadata holds path braces,
\* ExtractMetadata returns METADATA with the path braces, the block delimiter
\* found is the whitespace-preceded { after the metadata, and ParseBracedBlock
\* returns what it returns for the same lines with the path braces taken out
C10_PathBraces ==
    PathBraces /\ OpensBlock
    => /\ Ran(metaOut)
          => /\ metaOut.metadata = meta
             /\ metaOut.blockPos = Len(meta) + 2
       /\ Ran(bracedOut)
          => bracedOut = ParseBracedBlock(
                 <<BlockName \o <<SP>> \o NoBraces(meta) \o ending>> \o body)

C10_Witness ==
    /\ Cardinality({i \in 1..Len(meta) : meta[i] = LB}) = 2
    /\ OpensBlock
    /\ Ran(metaOut)
    /\ bracedOut.ok
    /\ Len(body) = 2
    /\ Len(bracedOut.content) = 1

-----------------------------------------------------------------------------
(* Properties of the pipeline *)

\* the steps run so far are the first steps of generate(), in its order
RanInOrder == Len(ran) <= Len(Steps) /\ ran = SubSeq(Steps, 1, Len(ran))

\* C1: the steps run in the order parse, resolve, validate, generate, render,
\* write; after a step has returned an error no later step runs; the output file
\* is written only when every step before has succeeded
C1_StagesInOrder ==
    /\ RanInOrder
    /\ failedAt # "none"
       => /\ ran # <<>>
          /\ ran[Len(ran)] = failedAt
          /\ stage = "returned"
          /\ ~written
    /\ written => ran = Steps /\ failedAt = "none" /\ parsed.ok

\* a run that got as far as rendering and was stopped by the write
C1_Witness ==
    /\ failedAt = "write"
    /\ ran = Steps
    /\ ~written

\* a run that wrote the output file
C1_WitnessWritten == written /\ stage = "returned"

\* the first line of the package comment that starts with @
FirstAnnotationLine ==
    LET at == {i \in 1..Len(comment.lines) : HasPrefix(comment.lines[i], <<AT>>)}
    IN  IF at = {} THEN <<>> ELSE comment.lines[First(at, 0)]

\* the package comment holds a child line "@name value"
HasApiChild(name) ==
    \E i \in 1..Len(comment.lines) : HasPrefix(comment.lines[i], name \o <<SP>>)

\* C5: Parse returns an error and no package when there is no package comment,
\* when the annotation of the package comment is not @api, when @title is
\* missing and when @version is missing
C5_ParseRequiresApi ==
    /\ Ran(parsed)
    /\ \/ ~comment.present
       \/ WrittenName(FirstAnnotationLine) # <<"@", "a", "p", "i">>
       \/ ~HasApiChild(<<"@", "t", "i", "t", "l", "e">>)
       \/ ~HasApiChild(<<"@", "v", "e", "r", "s", "i", "o", "n">>)
    => ~parsed.ok

\* the part of C5 about the required children: Parse fails on an @api block
\* without @title or without @version, and without a package comment
C5_RequiredChildren ==
    /\ Ran(parsed)
    /\ \/ ~comment.present
       \/ FirstAnnotationLine = <<>>
       \/ ~HasApiChild(<<"@", "t", "i", "t", "l", "e">>)
       \/ ~HasApiChild(<<"@", "v", "e", "r", "s", "i", "o", "n">>)
    => ~parsed.ok

-----------------------------------------------------------------------------
(* The loops of the parser and of the generator that range over a Go map *)

\* the orders in which a range over a Go map with these keys can visit them
RangeOrders(keys) ==
    {o \in [1..Cardinality(keys) -> keys] :
        \A i, j \in 1..Cardinality(keys) : o[i] = o[j] => i = j}

\* strings.Fields
RECURSIVE Fields(_)
Fields(s) ==
    IF TrimLeft(s) = <<>> THEN <<>>
    ELSE <<Slice(TrimLeft(s), 0, IndexAnySpaceTab(TrimLeft(s) \o <<SP>>))>>
         \o Fields(From(TrimLeft(s), IndexAnySpaceTab(TrimLeft(s) \o <<SP>>)))

\* CommentBlock.HasAnnotation
HasAnnotation(cb, annotation) ==
    cb.present /\ \E i \in 1..Len(cb.lines) : HasPrefix(cb.lines[i], annotation)

\* IsInlineFormat
IsInlineFormat(lines) ==
    /\ Len(lines) > 0
    /\ Index(lines[1], LB) >= 0
    /\ Index(lines[1], RB) >= 0
    /\ Index(lines[1], LB) < Index(lines[1], RB)

Comment(lines) == [present |-> TRUE, lines |-> lines]

\* what a step of Parser.Parse hands back: the error and the declaration it
\* names, or the schemas and endpoints appended so far
ParseFailed(msg, at) == [ok |-> FALSE, err |-> msg, at |-> at, Schemas |-> <<>>, Endpoints |-> <<>>]
ParsedSoFar(schemas, endpoints) ==
    [ok |-> TRUE, err |-> "", at |-> <<>>, Schemas |-> schemas, Endpoints |-> endpoints]

\* Parser.parseSchemas, one @field comment: an error or the Field
parsedField(structName, fieldName, fieldLines) ==
    IF IsInlineFormat(fieldLines)
    THEN IF ParseInlineAnnotation(fieldLines[1], <<"@", "f", "i", "e", "l", "d">>, Schema_field).ok
         THEN [ok |-> TRUE, GoName |-> fieldName]
         ELSE [ok |-> FALSE, err |-> "failed to parse inline @field", GoName |-> fieldName]
    ELSE IF ParseAnnotationBlock(fieldLines, <<"@", "f", "i", "e", "l", "d">>, Schema_field).ok
         THEN [ok |-> TRUE, GoName |-> fieldName]
         ELSE [ok |-> FALSE, err |-> "failed to parse @field", GoName |-> fieldName]

\* append a field in front of what the rest of the loop returned
withField(field, rest) ==
    IF ~field.ok THEN [ok |-> FALSE, err |-> field.err, at |-> field.GoName, Fields |-> <<>>]
    ELSE IF ~rest.ok THEN rest
    ELSE [rest EXCEPT !.Fields = <<field.GoName>> \o @]

\* Parser.parseSchemas, "Parse fields": the range over FieldComments[structName],
\* visiting the field names in this order
RECURSIVE parseFieldsFrom(_, _, _, _)
parseFieldsFrom(structName, comments, order, i) ==
    IF i > Len(order) THEN [ok |-> TRUE, err |-> "", at |-> "", Fields |-> <<>>]
    ELSE IF ~HasAnnotation(comments[order[i]], <<"@", "f", "i", "e", "l", "d">>)
         THEN parseFieldsFrom(structName, comments, order, i + 1)
    ELSE withField(parsedField(structName, order[i], GetAnnotationLines(comments[order[i]])),
                   parseFieldsFrom(structName, comments, order, i + 1))

\* Parser.parseSchemas, one struct: its @schema block, then its fields
parsedSchema(structName, struct, fieldOrder) ==
    IF ~ParseAnnotationBlock(GetAnnotationLines(struct.comment), <<"@", "s", "c", "h", "e", "m", "a">>, Schema_schema).ok
    THEN [ok |-> FALSE, err |-> "failed to parse @schema", at |-> structName, Fields |-> <<>>]
    ELSE parseFieldsFrom(structName, struct.fields, fieldOrder, 1)

\* store a schema under its name in what the rest of the loop returned
withSchema(structName, schema, rest) ==
    IF ~schema.ok THEN ParseFailed(schema.err, <<structName, schema.at>>)
    ELSE IF ~rest.ok THEN rest
    ELSE [rest EXCEPT !.Schemas = (structName :> [Name |-> structName, Fields |-> schema.Fields]) @@ @]

\* Parser.parseSchemas, first pass: the range over StructComments, visiting the
\* struct names in the order structOrder and the fields of each struct in the
\* order fieldOrders gives for it (no struct of the package is generic, so the
\* second pass adds nothing)
RECURSIVE parseSchemasFrom(_, _, _, _)
parseSchemasFrom(structs, structOrder, fieldOrders, i) ==
    IF i > Len(structOrder) THEN ParsedSoFar(<<>>, <<>>)
    ELSE IF ~HasAnnotation(structs[structOrder[i]].comment, <<"@", "s", "c", "h", "e", "m", "a">>)
         THEN parseSchemasFrom(structs, structOrder, fieldOrders, i + 1)
    ELSE withSchema(structOrder[i],
                    parsedSchema(structOrder[i], structs[structOrder[i]], fieldOrders[structOrder[i]]),
                    parseSchemasFrom(structs, structOrder, fieldOrders, i + 1))

\* Parser.parseEndpoints, "Extract method and path from metadata"
endpointOf(funcName, got) ==
    IF ~got.ok THEN [ok |-> FALSE, err |-> "failed to parse @endpoint", FuncName |-> funcName]
    ELSE IF Len(Fields(got.pa.Metadata)) < 2
         THEN [ok |-> FALSE, err |-> "missing method and path", FuncName |-> funcName]
    ELSE [ok |-> TRUE, FuncName |-> funcName,
          Method |-> Fields(got.pa.Metadata)[1], Path |-> Fields(got.pa.Metadata)[2]]

\* append an endpoint in front of what the rest of the loop returned
withEndpoint(endpoint, rest) ==
    IF ~endpoint.ok THEN ParseFailed(endpoint.err, <<endpoint.FuncName>>)
    ELSE IF ~rest.ok THEN rest
    ELSE [rest EXCEPT !.Endpoints = <<endpoint>> \o @]

\* Parser.parseEndpoints: the range over FunctionComments, visiting the function
\* names in this order
RECURSIVE parseEndpointsFrom(_, _, _)
parseEndpointsFrom(functions, order, i) ==
    IF i > Len(order) THEN ParsedSoFar(<<>>, <<>>)
    ELSE IF ~HasAnnotation(functions[order[i]], <<"@", "e", "n", "d", "p", "o", "i", "n", "t">>)
         THEN parseEndpointsFrom(functions, order, i + 1)
    ELSE withEndpoint(endpointOf(order[i],
                                 ParseAnnotationBlock(GetAnnotationLines(functions[order[i]]),
                                                      <<"@", "e", "n", "d", "p", "o", "i", "n", "t">>, Schema_endpoint)),
                      parseEndpointsFrom(functions, order, i + 1))

\* Parser.Parse, the steps parseSchemas and parseEndpoints: the first error, or
\* the schemas and the endpoints
parseEndpointsAfter(schemas, endpoints) ==
    IF ~schemas.ok THEN schemas
    ELSE IF ~endpoints.ok THEN endpoints
    ELSE ParsedSoFar(schemas.Schemas, endpoints.Endpoints)

\* the distinct paths of the endpoints: the keys of pathMap in generatePaths
PathsOf(endpoints) == {endpoints[i].Path : i \in 1..Len(endpoints)}

\* Generator.generateSchemas and generatePaths, "Add to paths": the component
\* schemas and the path items in the order the two ranges set them
generated(schemaOrder, pathOrder) == [ok |-> TRUE, Schemas |-> schemaOrder, Paths |-> pathOrder]

-----------------------------------------------------------------------------
(* SpecRuns: the parser and the generator run twice on the same package *)

\* the functions of the package: two endpoints, two @endpoint comments without
\* a path, and a function without annotation
FunctionPool == {"GetUser", "ListUsers", "CreateUser", "DeleteUser"}
FunctionComment(f) ==
    CASE f = "GetUser" -> Comment(<<<<"G", "e", "t", "U", "s", "e", "r", " ", "r", "e", "t", "u", "r", "n", "s", " ", "a", " ", "u", "s", "e", "r">>, <<"@", "e", "n", "d", "p", "o", "i", "n", "t", " ", "G", "E", "T", " ", "/", "u", "s", "e", "r", "s", "/", "{", "i", "d", "}", " ", "{">>,
                                    <<"@", "s", "u", "m", "m", "a", "r", "y", " ", "o", "n", "e">>, <<"}">>>>)
      [] f = "ListUsers" -> Comment(<<<<"@", "e", "n", "d", "p", "o", "i", "n", "t", " ", "G", "E", "T", " ", "/", "u", "s", "e", "r", "s", " ", "{">>, <<"}">>>>)
      [] f = "CreateUser" -> Comment(<<<<"@", "e", "n", "d", "p", "o", "i", "n", "t", " ", "P", "O", "S", "T", " ", "{">>, <<"}">>>>)
      [] f = "DeleteUser" -> Comment(<<<<"D", "e", "l", "e", "t", "e", "U", "s", "e", "r", " ", "i", "s", " ", "i", "n", "t", "e", "r", "n", "a", "l">>>>)

\* the structs of the package: a @schema with two annotated fields, one with an
\* annotated and a plain field, and one whose @schema block never closes
StructPool == {"User", "Order", "Draft"}
StructComment(s) ==
    CASE s = "User" -> [comment |-> Comment(<<<<"@", "s", "c", "h", "e", "m", "a">>>>),
                        fields |-> ("ID" :> Comment(<<<<"@", "f", "i", "e", "l", "d", " ", "{", " ", "@", "f", "o", "r", "m", "a", "t", " ", "u", "u", "i", "d", " ", "}">>>>)) @@
                                   ("Name" :> Comment(<<<<"@", "f", "i", "e", "l", "d", " ", "{">>, <<"@", "d", "e", "s", "c", "r", "i", "p", "t", "i", "o", "n", " ", "n">>, <<"}">>>>))]
      [] s = "Order" -> [comment |-> Comment(<<<<"@", "s", "c", "h", "e", "m", "a", " ", "{">>, <<"@", "d", "e", "p", "r", "e", "c", "a", "t", "e", "d">>, <<"}">>>>),
                         fields |-> ("ID" :> Comment(<<<<"@", "f", "i", "e", "l", "d", " ", "{", " ", "@", "f", "o", "r", "m", "a", "t", " ", "u", "u", "i", "d", " ", "}">>>>)) @@
                                    ("Total" :> Comment(<<<<"T", "o", "t", "a", "l", " ", "i", "n", " ", "c", "e", "n", "t", "s">>>>))]
      [] s = "Draft" -> [comment |-> Comment(<<<<"@", "s", "c", "h", "e", "m", "a", " ", "{">>, <<"@", "d", "e", "s", "c", "r", "i", "p", "t", "i", "o", "n", " ", "d">>>>),
                         fields |-> <<>>]

Runs == {1, 2}
NoRun == [parsed |-> NotRun, doc |-> NotRun]

InitRuns ==
    /\ \E F \in SUBSET FunctionPool : functionComments = [f \in F |-> FunctionComment(f)]
    /\ \E S \in SUBSET StructPool : structComments = [s \in S |-> StructComment(s)]
    /\ runs = [r \in Runs |-> NoRun]
    /\ ParserIdle
    /\ BraceIdle
    /\ PipelineIdle
    /\ ResolverIdle
    /\ PackageIdle
    /\ ExtraIdle

\* the field orders of one run: for every struct, an order of its field comments
FieldOrders(structs) ==
    {fo \in [DOMAIN structs -> UNION {RangeOrders(DOMAIN structs[s].fields) : s \in DOMAIN structs}] :
        \A s \in DOMAIN structs : fo[s] \in RangeOrders(DOMAIN structs[s].fields)}

\* run r of Parser.Parse, steps parseSchemas and parseEndpoints
ParseRun(r) ==
    /\ ~Ran(runs[r].parsed)
    /\ \E structOrder \in RangeOrders(DOMAIN structComments),
          fieldOrders \in FieldOrders(structComments),
          order \in RangeOrders(DOMAIN functionComments) :
            runs' = [runs EXCEPT ![r].parsed =
                        parseEndpointsAfter(
                            parseSchemasFrom(structComments, structOrder, fieldOrders, 1),
                            parseEndpointsFrom(functionComments, order, 1))]
    /\ UNCHANGED <<functionComments, structComments, extraVars, parserVars, braceVars,
                   pipelineVars, resolverVars, packageVars>>

\* run r of Generator.Generate on what run r parsed (Resolve keeps the keys of the
\* schema map and the order of the endpoint list)
GenerateRun(r) ==
    /\ runs[r].parsed.ok
    /\ ~Ran(runs[r].doc)
    /\ \E schemaOrder \in RangeOrders(DOMAIN runs[r].parsed.Schemas),
          pathOrder \in RangeOrders(PathsOf(runs[r].parsed.Endpoints)) :
            runs' = [runs EXCEPT ![r].doc = generated(schemaOrder, pathOrder)]
    /\ UNCHANGED <<functionComments, structComments, extraVars, parserVars, braceVars,
                   pipelineVars, resolverVars, packageVars>>

NextRuns == \E r \in Runs : ParseRun(r) \/ GenerateRun(r)

SpecRuns == InitRuns /\ [][NextRuns]_vars

-----------------------------------------------------------------------------
(* Properties of the runs *)

\* C11: the pipeline is deterministic over a static input: two runs on the same
\* package return the same ParsedPackage, with the same order of the endpoint list
\* and of each schema's annotated field list, or the same error, and emit the paths
\* and the component schemas in the same order
C11_Deterministic ==
    \A r, q \in Runs :
        /\ Ran(runs[r].parsed) /\ Ran(runs[q].parsed) => runs[r].parsed = runs[q].parsed
        /\ Ran(runs[r].doc) /\ Ran(runs[q].doc) => runs[r].doc = runs[q].doc

-----------------------------------------------------------------------------
(* The Go types of the package under resolution.                           *)
(*                                                                         *)
(* A types.Type is the sequence of its constructors: pointer, slice and    *)
(* map wrappers in front of a basic kind, a declared name, an alias, a     *)
(* struct literal or interface{}.                                          *)

PointerTo(t) == <<"*">> \o t
SliceOf(t) == <<"[]">> \o t
MapOf(t) == <<"map[string]">> \o t

IsPointer(t) == Head(t) = "*"
IsSliceType(t) == Head(t) = "[]"
IsMapType(t) == Head(t) = "map[string]"
Elem(t) == Tail(t)

BasicKinds == {"bool", "int", "int8", "int16", "int32", "int64", "uint", "uint8", "uint16",
               "uint32", "uint64", "float32", "float64", "string", "complex128"}

\* the type declarations: custom scalars, a named slice, the self-referencing
\* Employee of examples/full, a struct without annotation, two standard library
\* structs, and a type Kind declared in the body of two functions
NamedTypes == {"Status", "Tags", "Employee", "Address", "Office", "Paging", "time.Time", "big.Int",
               "GetUser.Kind", "ListUsers.Kind"}
Aliases == {"any", "Text", "Staff"}
StructLiterals == {"struct{Addr;Site}", "struct{Page;Sort}", "struct{ID;Manager;DirectReports}", "struct{Street}", "struct{wall;ext}",
                   "struct{neg;abs}", "struct{Lat;lng}", "struct{Home;Geo}", "struct{}"}

TypeDecl(name) ==
    CASE name = "Status" -> [pkgPath |-> "api", Name |-> "Status", Underlying |-> <<"string">>]
      [] name = "Tags" -> [pkgPath |-> "api", Name |-> "Tags", Underlying |-> <<"[]", "string">>]
      [] name = "Employee" -> [pkgPath |-> "api", Name |-> "Employee",
                               Underlying |-> <<"struct{ID;Manager;DirectReports}">>]
      [] name = "Address" -> [pkgPath |-> "api", Name |-> "Address", Underlying |-> <<"struct{Street}">>]
      [] name = "Office" -> [pkgPath |-> "api", Name |-> "Office", Underlying |-> <<"struct{Addr;Site}">>]
      [] name = "Paging" -> [pkgPath |-> "api", Name |-> "Paging", Underlying |-> <<"struct{Page;Sort}">>]
      [] name = "time.Time" -> [pkgPath |-> "time", Name |-> "Time", Underlying |-> <<"struct{wall;ext}">>]
      [] name = "big.Int" -> [pkgPath |-> "math/big", Name |-> "Int", Underlying |-> <<"struct{neg;abs}">>]
      [] name = "GetUser.Kind" -> [pkgPath |-> "api", Name |-> "Kind", Underlying |-> <<"int">>]
      [] name = "ListUsers.Kind" -> [pkgPath |-> "api", Name |-> "Kind", Underlying |-> <<"string">>]

\* types.Alias.Rhs
Rhs(name) ==
    CASE name = "any" -> <<"interface{}">>
      [] name = "Text" -> <<"string">>
      [] name = "Staff" -> <<"Employee">>

IsAlias(t) == Len(t) = 1 /\ t[1] \in Aliases
IsNamed(t) == Len(t) = 1 /\ t[1] \in NamedTypes
IsBasic(t) == Len(t) = 1 /\ t[1] \in BasicKinds
IsInterface(t) == t = <<"interface{}">>
IsStruct(t) == Len(t) = 1 /\ t[1] \in StructLiterals

\* types.Named.Underlying
Underlying(t) == TypeDecl(t[1]).Underlying

\* types.Type.String: a declared type prints as its package and name, whatever
\* the scope of its declaration
TypeString(t) == [i \in 1..Len(t) |-> IF t[i] \in {"GetUser.Kind", "ListUsers.Kind"} THEN "Kind" ELSE t[i]]

\* a struct field: types.Var with the tag of types.Struct.Tag
Var(name, exported, tag, type) == [Name |-> name, Exported |-> exported, Tag |-> tag, Type |-> type]

\* types.Struct: the fields of a struct literal
StructFields(lit) ==
    CASE lit = "struct{ID;Manager;DirectReports}" ->
            <<Var(<<"I", "D">>, TRUE, <<"j", "s", "o", "n", ":", "\"", "i", "d", "\"">>, <<"string">>),
              Var(<<"M", "a", "n", "a", "g", "e", "r">>, TRUE, <<"j", "s", "o", "n", ":", "\"", "m", "a", "n", "a", "g", "e", "r", ",", "o", "m", "i", "t", "e", "m", "p", "t", "y", "\"">>, <<"*", "Employee">>),
              Var(<<"D", "i", "r", "e", "c", "t", "R", "e", "p", "o", "r", "t", "s">>, TRUE, <<"j", "s", "o", "n", ":", "\"", "d", "i", "r", "e", "c", "t", "_", "r", "e", "p", "o", "r", "t", "s", ",", "o", "m", "i", "t", "e", "m", "p", "t", "y", "\"">>, <<"[]", "Employee">>)>>
      [] lit = "struct{Street}" -> <<Var(<<"S", "t", "r", "e", "e", "t">>, TRUE, <<"j", "s", "o", "n", ":", "\"", "s", "t", "r", "e", "e", "t", "\"">>, <<"string">>)>>
      [] lit = "struct{wall;ext}" -> <<Var(<<"w", "a", "l", "l">>, FALSE, <<>>, <<"uint64">>),
                                       Var(<<"e", "x", "t">>, FALSE, <<>>, <<"int64">>)>>
      [] lit = "struct{neg;abs}" -> <<Var(<<"n", "e", "g">>, FALSE, <<>>, <<"bool">>),
                                      Var(<<"a", "b", "s">>, FALSE, <<>>, <<"[]", "uint">>)>>
      [] lit = "struct{Lat;lng}" -> <<Var(<<"L", "a", "t">>, TRUE, <<"j", "s", "o", "n", ":", "\"", "l", "a", "t", "\"">>, <<"float64">>),
                                      Var(<<"l", "n", "g">>, FALSE, <<>>, <<"float64">>)>>
      [] lit = "struct{Home;Geo}" -> <<Var(<<"H", "o", "m", "e">>, TRUE, <<"j", "s", "o", "n", ":", "\"", "h", "o", "m", "e", "\"">>, <<"Address">>),
                                       Var(<<"G", "e", "o">>, TRUE, <<>>, <<"*", "struct{Lat;lng}">>)>>
      [] lit = "struct{Addr;Site}" -> <<Var(<<"A", "d", "d", "r">>, TRUE, <<"j", "s", "o", "n", ":", "\"", "a", "d", "d", "r", "\"">>, <<"Address">>),
                                        Var(<<"S", "i", "t", "e">>, TRUE, <<"j", "s", "o", "n", ":", "\"", "s", "i", "t", "e", "\"">>, <<"struct{Home;Geo}">>)>>
      [] lit = "struct{Page;Sort}" -> <<Var(<<"P", "a", "g", "e">>, TRUE, <<"q", "u", "e", "r", "y", ":", "\"", "p", "a", "g", "e", "\"">>, <<"*", "int32">>),
                                        Var(<<"S", "o", "r", "t">>, TRUE, <<"q", "u", "e", "r", "y", ":", "\"", "s", "o", "r", "t", "\"">>, <<"[]", "string">>)>>
      [] lit = "struct{}" -> <<>>

-----------------------------------------------------------------------------
(* Struct tags *)

DQ == "\""

\* reflect.StructTag.Get on a conventional tag string key:"value" key:"value":
\* the value of the first pair with this key, or the empty string
RECURSIVE TagGet(_, _)
TagGet(tag, key) ==
    LET t == TrimLeft(tag)
        colon == Index(t, ":")
        value == From(t, colon + 2)
        close == Index(value, DQ)
    IN  IF colon <= 0 \/ ~HasPrefix(From(t, colon), <<":", DQ>>) \/ close < 0 THEN <<>>
        ELSE IF Slice(t, 0, colon) = key THEN Slice(value, 0, close)
        ELSE TagGet(From(value, close + 1), key)

\* extractTagName
extractTagName(tag, key) ==
    IF TagGet(tag, key) = <<>> THEN <<>> ELSE Split(TagGet(tag, key), ",")[1]

SupportedTags == <<<<"j", "s", "o", "n">>, <<"x", "m", "l">>>>

\* the name part of a tag value: the text before the first comma
namePart(tagValue) ==
    IF Index(tagValue, ",") # -1 THEN Slice(tagValue, 0, Index(tagValue, ",")) ELSE tagValue

\* a name resolution that reads the first of SupportedTags only
resolveFieldNameFirstTagOnly(tag, goFieldName, k) ==
    LET tagValue == TagGet(tag, SupportedTags[1])
    IN  IF tagValue = <<>> THEN goFieldName
        ELSE IF tagValue = <<"-">> THEN <<>>
        ELSE IF namePart(tagValue) = <<>> THEN goFieldName
        ELSE namePart(tagValue)

\* resolveFieldNameFromTag, the loop over SupportedTags from the tag key k on
RECURSIVE resolveFieldNameFrom(_, _, _)
resolveFieldNameFrom(tag, goFieldName, k) ==
    IF k > Len(SupportedTags) THEN goFieldName
    ELSE LET tagValue == TagGet(tag, SupportedTags[k])
         IN  IF tagValue = <<>> THEN resolveFieldNameFrom(tag, goFieldName, k + 1)
             ELSE IF tagValue = <<"-">> THEN <<>>
             ELSE IF namePart(tagValue) = <<>> THEN resolveFieldNameFrom(tag, goFieldName, k + 1)
             ELSE namePart(tagValue)

\* resolveFieldNameFromTag: the empty string when the field is to be skipped
resolveFieldNameFromTag(tag, goFieldName) == resolveFieldNameFrom(tag, goFieldName, 1)

\* strings.Contains
Contains(s, sub) == IndexOf(s, sub) >= 0

-----------------------------------------------------------------------------
(* Type resolution *)

\* specialTypes: package path and type name to OpenAPI type and format
specialTypes ==
    <<"time", "Time">> :> [openAPIType |-> "string", format |-> "date-time"] @@
    <<"net/url", "URL">> :> [openAPIType |-> "string", format |-> "uri"] @@
    <<"net/netip", "Addr">> :> [openAPIType |-> "string", format |-> ""] @@
    <<"net/netip", "AddrPort">> :> [openAPIType |-> "string", format |-> ""] @@
    <<"net/netip", "Prefix">> :> [openAPIType |-> "string", format |-> ""] @@
    <<"math/big", "Int">> :> [openAPIType |-> "string", format |-> ""] @@
    <<"math/big", "Float">> :> [openAPIType |-> "string", format |-> ""] @@
    <<"math/big", "Rat">> :> [openAPIType |-> "string", format |-> ""] @@
    <<"regexp", "Regexp">> :> [openAPIType |-> "string", format |-> ""]

\* isSpecialType
isSpecialType(pkgPath, typeName) == <<pkgPath, typeName>> \in DOMAIN specialTypes

\* TypeInfo
NewTypeInfo ==
    [OpenAPIType |-> "", Format |-> "", IsArray |-> FALSE, ItemsType |-> "",
     IsNullable |-> FALSE, IsAnyValue |-> FALSE]

\* resolveType, "Handle basic types"
basicInfo(info, kind) ==
    CASE kind = "bool" -> [info EXCEPT !.OpenAPIType = "boolean"]
      [] kind \in {"int", "int8", "int16", "int32"} ->
            [info EXCEPT !.OpenAPIType = "integer",
                         !.Format = IF kind = "int32" THEN "int32" ELSE @]
      [] kind = "int64" -> [info EXCEPT !.OpenAPIType = "integer", !.Format = "int64"]
      [] kind \in {"uint", "uint8", "uint16", "uint32", "uint64"} ->
            [info EXCEPT !.OpenAPIType = "integer"]
      [] kind = "float32" -> [info EXCEPT !.OpenAPIType = "number", !.Format = "float"]
      [] kind = "float64" -> [info EXCEPT !.OpenAPIType = "number", !.Format = "double"]
      [] kind = "string" -> [info EXCEPT !.OpenAPIType = "string"]
      [] OTHER -> [info EXCEPT !.OpenAPIType = "string"]

\* what resolveType returns: the TypeInfo, and typeCache as the call leaves it
Resolved(info, cache) == [info |-> info, cache |-> cache]

\* r.typeCache[typeStr] = info; return info
Cached(cache, typeStr, info) == Resolved(info, (typeStr :> info) @@ cache)

\* resolveType, "Handle slices/arrays", with what the call for the element returned
sliceInfo(typeStr, info, elem) ==
    Cached(elem.cache, typeStr,
           [info EXCEPT !.IsArray = TRUE, !.ItemsType = elem.info.OpenAPIType, !.OpenAPIType = "array"])

\* resolveType, "Check for special standard library types"
specialInfo(info, decl) ==
    [info EXCEPT !.OpenAPIType = specialTypes[<<decl.pkgPath, decl.Name>>].openAPIType,
                 !.Format = specialTypes[<<decl.pkgPath, decl.Name>>].format]

\* resolveType, the last branches: basic kinds, interfaces, and any other type
leafInfo(info, t) ==
    IF IsBasic(t) THEN basicInfo(info, t[1])
    ELSE IF IsInterface(t) THEN [info EXCEPT !.IsAnyValue = TRUE]
    ELSE [info EXCEPT !.OpenAPIType = "string"]

\* resolveType after "Handle pointer types": info holds the nullable flag and t
\* is the type behind the pointer
RECURSIVE resolveType(_, _)
resolveUnwrapped(cache, typeStr, info, t) ==
    IF IsSliceType(t) THEN sliceInfo(typeStr, info, resolveType(cache, Elem(t)))
    ELSE IF IsAlias(t) THEN resolveType(cache, Rhs(t[1]))
    ELSE IF IsNamed(t)
         THEN IF isSpecialType(TypeDecl(t[1]).pkgPath, TypeDecl(t[1]).Name)
              THEN Cached(cache, typeStr, specialInfo(info, TypeDecl(t[1])))
              ELSE resolveType(cache, Underlying(t))
    ELSE Cached(cache, typeStr, leafInfo(info, t))

\* Resolver.resolveType on a Resolver whose typeCache is cache
resolveType(cache, t) ==
    IF TypeString(t) \in DOMAIN cache THEN Resolved(cache[TypeString(t)], cache)
    ELSE IF IsPointer(t)
         THEN resolveUnwrapped(cache, TypeString(t), [NewTypeInfo EXCEPT !.IsNullable = TRUE], Elem(t))
    ELSE resolveUnwrapped(cache, TypeString(t), NewTypeInfo, t)

\* a field list that is nil, and one that holds fields
NilFields == [isNil |-> TRUE, fields |-> <<>>]
FieldList(fields) == [isNil |-> FALSE, fields |-> fields]

\* &ResolvedField{Name, GoName, GoType}
NewResolvedField(name, goName, goType) ==
    [Name |-> name, GoName |-> goName, GoType |-> goType, Required |-> FALSE,
     Nullable |-> FALSE, OpenAPIType |-> "", Format |-> "",
     IsArray |-> FALSE, ItemsType |-> "", ItemsInlineFields |-> NilFields,
     IsMap |-> FALSE, MapValueInlineFields |-> NilFields,
     IsAnyValue |-> FALSE,
     IsUnresolvedStruct |-> FALSE, UnresolvedTypeName |-> "",
     InlineFields |-> NilFields]

\* "Unwrap pointer"
unwrapPointer(t) == IF IsPointer(t) THEN Elem(t) ELSE t

\* Resolver.checkUnresolvedStruct: the field, flagged or not
RECURSIVE checkUnresolvedStruct(_, _, _)
checkUnresolvedStruct(t, resolved, names) ==
    IF IsSliceType(unwrapPointer(t)) \/ IsMapType(unwrapPointer(t))
    THEN checkUnresolvedStruct(Elem(unwrapPointer(t)), resolved, names)
    ELSE IF ~IsNamed(unwrapPointer(t)) THEN resolved
    ELSE IF isSpecialType(TypeDecl(unwrapPointer(t)[1]).pkgPath, TypeDecl(unwrapPointer(t)[1]).Name)
         THEN resolved
    ELSE IF IsStruct(Underlying(unwrapPointer(t)))
         THEN IF TypeDecl(unwrapPointer(t)[1]).Name \notin names
              THEN [resolved EXCEPT !.IsUnresolvedStruct = TRUE,
                                    !.UnresolvedTypeName = TypeDecl(unwrapPointer(t)[1]).Name]
              ELSE resolved
    ELSE checkUnresolvedStruct(Underlying(unwrapPointer(t)), resolved, names)

\* the six assignments that copy a TypeInfo into a field
withTypeInfo(resolved, info) ==
    [resolved EXCEPT !.OpenAPIType = info.OpenAPIType, !.Format = info.Format,
                     !.IsArray = info.IsArray, !.ItemsType = info.ItemsType,
                     !.Nullable = info.IsNullable, !.IsAnyValue = info.IsAnyValue]

-----------------------------------------------------------------------------
(* Field resolution *)

\* the deepest nesting of struct literals a resolution follows before it counts
\* as not returning
MaxNesting == 3

\* what the resolvers of a field list return: nil or the fields, typeCache as the
\* call leaves it, and whether the call returned
ReturnedNil(cache) == [isNil |-> TRUE, fields |-> <<>>, cache |-> cache, returns |-> TRUE]
Returned(fields, cache) == [isNil |-> FALSE, fields |-> fields, cache |-> cache, returns |-> TRUE]
NotReturned(cache) == [isNil |-> FALSE, fields |-> <<>>, cache |-> cache, returns |-> FALSE]

\* what the resolvers of one field return: nil or the field, typeCache, and whether
\* the call returned
NoField(cache) == [isNil |-> TRUE, field |-> NewResolvedField(<<>>, <<>>, <<>>), cache |-> cache,
                   returns |-> TRUE]
OneField(field, cache, returns) == [isNil |-> FALSE, field |-> field, cache |-> cache, returns |-> returns]

\* the annotation of a field (parser.Field), as far as it touches the type
NoAnnotation == [present |-> FALSE, Format |-> "", Nullable |-> FALSE]
Annotation(format, nullable) == [present |-> TRUE, Format |-> format, Nullable |-> nullable]

\* a struct literal is a struct behind any declared name too
IsStructBehindNames(t) == IsStruct(t) \/ (IsNamed(t) /\ IsStruct(Underlying(t)))

\* t.(*types.Struct)
IsStructType(t) == IsStruct(t)

\* the struct literal of a struct type
StructOf(t) == IF IsNamed(t) THEN Underlying(t)[1] ELSE t[1]

\* the branches of resolveField and resolveAnonymousStruct that classify a field by
\* its type, given the field as checkUnresolvedStruct leaves it and what the three
\* anonymous-struct resolvers and resolveType returned
classified(resolved, checked, inline, items, values, typed) ==
    IF ~inline.isNil
    THEN OneField([resolved EXCEPT !.InlineFields = FieldList(inline.fields), !.OpenAPIType = "object"],
                  inline.cache, inline.returns)
    ELSE IF ~items.isNil
    THEN OneField([resolved EXCEPT !.IsArray = TRUE, !.OpenAPIType = "array", !.ItemsType = "object",
                                   !.ItemsInlineFields = FieldList(items.fields)],
                  items.cache, items.returns)
    ELSE IF ~values.isNil
    THEN OneField([resolved EXCEPT !.IsMap = TRUE, !.OpenAPIType = "object",
                                   !.MapValueInlineFields = FieldList(values.fields)],
                  values.cache, values.returns)
    ELSE OneField(withTypeInfo(checked, typed.info), typed.cache, TRUE)

RECURSIVE resolveAnonymousStruct(_, _, _, _)

\* Resolver.resolveSliceOfAnonymousStruct
resolveSliceOfAnonymousStruct(cache, t, names, depth) ==
    IF ~IsSliceType(unwrapPointer(t)) THEN ReturnedNil(cache)
    ELSE resolveAnonymousStruct(cache, Elem(unwrapPointer(t)), names, depth)

\* Resolver.resolveMapOfAnonymousStruct
resolveMapOfAnonymousStruct(cache, t, names, depth) ==
    IF ~IsMapType(unwrapPointer(t)) THEN ReturnedNil(cache)
    ELSE resolveAnonymousStruct(cache, Elem(unwrapPointer(t)), names, depth)

\* the field of type t, classified
fieldOfType(cache, t, resolved, names, depth) ==
    classified(resolved, checkUnresolvedStruct(t, resolved, names),
               resolveAnonymousStruct(cache, t, names, depth),
               resolveSliceOfAnonymousStruct(cache, t, names, depth),
               resolveMapOfAnonymousStruct(cache, t, names, depth),
               resolveType(cache, t))

\* append a field in front of the fields the rest of a loop returned
withResolved(one, rest) ==
    IF ~one.returns THEN NotReturned(one.cache)
    ELSE IF ~rest.returns THEN rest
    ELSE IF one.isNil THEN rest
    ELSE Returned(<<one.field>> \o rest.fields, rest.cache)

\* resolveField, "Check if field is required"
requiredByTag(resolved, tag) == [resolved EXCEPT !.Required = ~Contains(tag, <<"o", "m", "i", "t", "e", "m", "p", "t", "y">>)]

RECURSIVE anonymousFieldsFrom(_, _, _, _, _)

\* the rest of the loop of resolveAnonymousStruct after its field i
anonymousFieldsAfter(one, structFields, i, names, depth) ==
    withResolved(one, anonymousFieldsFrom(one.cache, structFields, i + 1, names, depth))

\* resolveAnonymousStruct, the loop over the fields of the struct from field i on
anonymousFieldsFrom(cache, structFields, i, names, depth) ==
    IF i > Len(structFields) THEN Returned(<<>>, cache)
    ELSE IF ~structFields[i].Exported \/ resolveFieldNameFromTag(structFields[i].Tag, structFields[i].Name) = <<>>
         THEN anonymousFieldsFrom(cache, structFields, i + 1, names, depth)
    ELSE anonymousFieldsAfter(
            fieldOfType(cache, structFields[i].Type,
                        requiredByTag(NewResolvedField(resolveFieldNameFromTag(structFields[i].Tag, structFields[i].Name),
                                                       structFields[i].Name, TypeString(structFields[i].Type)),
                                      structFields[i].Tag),
                        names, depth),
            structFields, i, names, depth)

\* Resolver.resolveAnonymousStruct: nil unless t is a struct literal, or a pointer
\* to one
resolveAnonymousStruct(cache, t, names, depth) ==
    IF ~IsStructType(unwrapPointer(t)) THEN ReturnedNil(cache)
    ELSE IF depth >= MaxNesting THEN NotReturned(cache)
    ELSE anonymousFieldsFrom(cache, StructFields(StructOf(unwrapPointer(t))), 1, names, depth + 1)

\* resolveField, "Apply annotation overrides if present"
withAnnotation(one, annotation) ==
    IF one.isNil \/ ~annotation.present \/ annotation.Format = "" THEN one
    ELSE [one EXCEPT !.field.Format = annotation.Format]

\* Resolver.resolveField: nil when the field is skipped
resolveField(cache, var, annotation, names) ==
    IF ~var.Exported THEN NoField(cache)
    ELSE IF resolveFieldNameFromTag(var.Tag, var.Name) = <<>> THEN NoField(cache)
    ELSE withAnnotation(
            fieldOfType(cache, var.Type,
                        requiredByTag(NewResolvedField(resolveFieldNameFromTag(var.Tag, var.Name),
                                                       var.Name, TypeString(var.Type)),
                                      var.Tag),
                        names, 0),
            annotation)

\* the tag keys of the parameter types
ParamTypes == {<<"p", "a", "t", "h">>, <<"q", "u", "e", "r", "y">>, <<"h", "e", "a", "d", "e", "r">>, <<"c", "o", "o", "k", "i", "e">>}

\* "For parameter types, handle "-" and empty as fallback to Go field name"
orGoName(tagName, goName) == IF tagName = <<"-">> \/ tagName = <<>> THEN goName ELSE tagName

\* resolveFieldWithParamType, "Apply annotation overrides if present"
withParamAnnotation(resolved, annotation) ==
    IF ~annotation.present THEN resolved
    ELSE [resolved EXCEPT !.Format = IF annotation.Format # "" THEN annotation.Format ELSE @,
                          !.Nullable = IF annotation.Nullable THEN TRUE ELSE @]

\* resolveFieldWithParamType with what resolveType returned
paramField(resolved, annotation, typed) ==
    OneField(withParamAnnotation(withTypeInfo(resolved, typed.info), annotation), typed.cache, TRUE)

\* Resolver.resolveFieldWithParamType: nil when the field is skipped
resolveFieldWithParamType(cache, var, annotation, paramType) ==
    IF ~var.Exported THEN NoField(cache)
    ELSE IF paramType \notin ParamTypes /\ resolveFieldNameFromTag(var.Tag, var.Name) = <<>>
         THEN NoField(cache)
    ELSE paramField(
            requiredByTag(
                NewResolvedField(
                    orGoName(IF paramType \in ParamTypes THEN extractTagName(var.Tag, paramType)
                             ELSE resolveFieldNameFromTag(var.Tag, var.Name), var.Name),
                    var.Name, TypeString(var.Type)),
                var.Tag),
            annotation, resolveType(cache, var.Type))

\* the annotation of a struct field: the first parser.Field with its Go name
annotationOf(annotations, goName) ==
    IF goName \in DOMAIN annotations THEN annotations[goName] ELSE NoAnnotation

\* the loop of resolveSchema over the fields of the struct from field i on
RECURSIVE schemaFieldsFrom(_, _, _, _, _)
schemaFieldsAfter(one, structFields, i, annotations, names) ==
    withResolved(one, schemaFieldsFrom(one.cache, structFields, i + 1, annotations, names))
schemaFieldsFrom(cache, structFields, i, annotations, names) ==
    IF i > Len(structFields) THEN Returned(<<>>, cache)
    ELSE schemaFieldsAfter(resolveField(cache, structFields[i], annotationOf(annotations, structFields[i].Name), names),
                           structFields, i, annotations, names)

\* the loop of resolveParameter over the fields of the struct from field i on
RECURSIVE parameterFieldsFrom(_, _, _, _, _)
parameterFieldsAfter(one, structFields, i, annotations, paramType) ==
    withResolved(one, parameterFieldsFrom(one.cache, structFields, i + 1, annotations, paramType))
parameterFieldsFrom(cache, structFields, i, annotations, paramType) ==
    IF i > Len(structFields) THEN Returned(<<>>, cache)
    ELSE parameterFieldsAfter(
            resolveFieldWithParamType(cache, structFields[i], annotationOf(annotations, structFields[i].Name), paramType),
            structFields, i, annotations, paramType)

\* what resolveSchema and resolveParameter return: an error, or the fields
ResolveError(msg, cache) == [ok |-> FALSE, err |-> msg, fields |-> <<>>, cache |-> cache, returns |-> TRUE]
ResolvedStruct(got) == [ok |-> TRUE, err |-> "", fields |-> got.fields, cache |-> got.cache,
                        returns |-> got.returns]

\* the names of the package scope: r.pkg.Types.Scope().Lookup finds these
PackageScope == {"Status", "Tags", "Employee", "Address", "Office", "Paging", "Text", "Staff"}

\* obj.Type().Underlying() of a name of the package scope
UnderlyingOf(name) ==
    IF name \in NamedTypes THEN Underlying(<<name>>)
    ELSE IF IsNamed(Rhs(name)) THEN Underlying(Rhs(name))
    ELSE Rhs(name)

\* resolveSchema takes any type of the scope for a struct
resolveSchemaUnchecked(cache, goTypeName, annotations, names) ==
    IF goTypeName \in PackageScope /\ IsStruct(UnderlyingOf(goTypeName))
    THEN ResolvedStruct(schemaFieldsFrom(cache, StructFields(UnderlyingOf(goTypeName)[1]), 1,
                                         annotations, names))
    ELSE ResolvedStruct(Returned(<<>>, cache))

\* Resolver.resolveSchema
resolveSchema(cache, goTypeName, annotations, names) ==
    IF goTypeName \notin PackageScope THEN ResolveError("struct not found in package", cache)
    ELSE IF ~IsStruct(UnderlyingOf(goTypeName)) THEN ResolveError("is not a struct", cache)
    ELSE ResolvedStruct(schemaFieldsFrom(cache, StructFields(UnderlyingOf(goTypeName)[1]), 1,
                                         annotations, names))

\* Resolver.resolveParameter
resolveParameter(cache, goTypeName, annotations, paramType) ==
    IF goTypeName \notin PackageScope THEN ResolveError("struct not found in package", cache)
    ELSE IF ~IsStruct(UnderlyingOf(goTypeName)) THEN ResolveError("is not a struct", cache)
    ELSE ResolvedStruct(parameterFieldsFrom(cache, StructFields(UnderlyingOf(goTypeName)[1]), 1,
                                            annotations, paramType))

\* resolveInlineStructFields, "Resolve type info": without schemaNames the
\* anonymous-struct resolvers are not asked
inlineFieldOfType(cache, t, resolved, names, anonymous) ==
    IF t = <<>> THEN OneField([resolved EXCEPT !.GoType = <<"string">>, !.OpenAPIType = "string"], cache, TRUE)
    ELSE IF anonymous
         THEN classified(resolved, resolved,
                         resolveAnonymousStruct(cache, t, names, 0),
                         resolveSliceOfAnonymousStruct(cache, t, names, 0),
                         resolveMapOfAnonymousStruct(cache, t, names, 0),
                         resolveType(cache, t))
    ELSE paramField(resolved, NoAnnotation, resolveType(cache, t))

\* the loop of resolveInlineStructFields over the fields of the AST struct from
\* field i on; a field without names is an embedded field
RECURSIVE inlineFieldsFrom(_, _, _, _, _, _)
inlineFieldsAfter(one, astFields, i, tagType, names, anonymous) ==
    withResolved(one, inlineFieldsFrom(one.cache, astFields, i + 1, tagType, names, anonymous))
inlineFieldsFrom(cache, astFields, i, tagType, names, anonymous) ==
    IF i > Len(astFields) THEN Returned(<<>>, cache)
    ELSE IF astFields[i].Name = <<>>
         THEN inlineFieldsFrom(cache, astFields, i + 1, tagType, names, anonymous)
    ELSE IF tagType \notin ParamTypes /\ resolveFieldNameFromTag(astFields[i].Tag, astFields[i].Name) = <<>>
         THEN inlineFieldsFrom(cache, astFields, i + 1, tagType, names, anonymous)
    ELSE inlineFieldsAfter(
            inlineFieldOfType(cache, astFields[i].Type,
                requiredByTag(
                    NewResolvedField(
                        orGoName(IF tagType \in ParamTypes
                                 THEN extractTagName(astFields[i].Tag, tagType)
                                 ELSE resolveFieldNameFromTag(astFields[i].Tag, astFields[i].Name),
                                 astFields[i].Name),
                        astFields[i].Name,
                        IF astFields[i].Type = <<>> THEN <<>> ELSE TypeString(astFields[i].Type)),
                    astFields[i].Tag),
                names, anonymous),
            astFields, i, tagType, names, anonymous)

\* Resolver.resolveInlineStructFields for an inline declaration without field
\* comments: schemaNames is nil for parameters (anonymous = FALSE)
resolveInlineStructFields(cache, astFields, tagType, names, anonymous) ==
    inlineFieldsFrom(cache, astFields, 1, tagType, names, anonymous)

-----------------------------------------------------------------------------
(* SpecResolve: calls of the field resolvers on one Resolver, whose typeCache *)
(* lives across the calls                                                     *)

\* the calls one Resolver serves
MaxCalls == 2

\* the types of the fields
TypePool ==
    {<<"string">>, <<"int32">>, <<"int64">>, <<"bool">>,
     <<"*", "string">>, <<"*", "int64">>, <<"*", "Status">>, <<"*", "Employee">>,
     <<"*", "time.Time">>, <<"*", "Text">>, <<"*", "[]", "string">>,
     <<"Status">>, <<"Tags">>, <<"Employee">>, <<"Address">>, <<"time.Time">>, <<"big.Int">>,
     <<"any">>, <<"Text">>, <<"interface{}">>,
     <<"[]", "string">>, <<"[]", "Employee">>, <<"[]", "Address">>, <<"[]", "any">>,
     <<"map[string]", "Address">>, <<"map[string]", "int32">>,
     <<"struct{Lat;lng}">>, <<"*", "struct{Lat;lng}">>, <<"[]", "struct{Lat;lng}">>,
     <<"map[string]", "struct{Lat;lng}">>, <<"struct{Home;Geo}">>, <<"struct{}">>}

\* the struct tags of the fields
JsonTags == {<<>>, <<"j", "s", "o", "n", ":", "\"", "-", "\"">>, <<"j", "s", "o", "n", ":", "\"", "i", "d", "\"">>, <<"j", "s", "o", "n", ":", "\"", ",", "o", "m", "i", "t", "e", "m", "p", "t", "y", "\"">>,
             <<"j", "s", "o", "n", ":", "\"", "i", "d", ",", "o", "m", "i", "t", "e", "m", "p", "t", "y", "\"">>, <<"j", "s", "o", "n", ":", "\"", "-", ",", "\"">>}
XmlTags == {<<>>, <<"x", "m", "l", ":", "\"", "-", "\"">>, <<"x", "m", "l", ":", "\"", "i", "d", "e", "n", "t", "\"">>, <<"x", "m", "l", ":", "\"", ",", "a", "t", "t", "r", "\"">>}
TagPool == {IF j = <<>> THEN x ELSE IF x = <<>> THEN j ELSE j \o <<SP>> \o x : j \in JsonTags, x \in XmlTags}
ParamTags == {<<>>, <<"q", "u", "e", "r", "y", ":", "\"", "q", "\"">>, <<"p", "a", "t", "h", ":", "\"", "-", "\"">>, <<"j", "s", "o", "n", ":", "\"", "-", "\"", " ", "q", "u", "e", "r", "y", ":", "\"", "q", ",", "o", "m", "i", "t", "e", "m", "p", "t", "y", "\"">>}

\* the fields handed to resolveField: every type under a json tag, and every tag on
\* an exported and on an unexported string field
SchemaFieldPool ==
    {Var(<<"D", "a", "t", "a">>, TRUE, <<"j", "s", "o", "n", ":", "\"", "d", "a", "t", "a", "\"">>, t) : t \in TypePool}
        \cup {Var(<<"I", "D">>, TRUE, tag, <<"string">>) : tag \in TagPool}
        \cup {Var(<<"s", "e", "c", "r", "e", "t">>, FALSE, tag, <<"string">>) : tag \in {<<>>, <<"j", "s", "o", "n", ":", "\"", "s", "e", "c", "r", "e", "t", "\"">>}}

\* the fields handed to resolveFieldWithParamType
ParamFieldPool ==
    {Var(<<"Q">>, TRUE, tag, <<"string">>) : tag \in ParamTags}
        \cup {Var(<<"P">>, TRUE, <<"q", "u", "e", "r", "y", ":", "\"", "p", "\"">>, t) :
                t \in {<<"*", "int64">>, <<"*", "Status">>, <<"[]", "string">>, <<"Address">>,
                       <<"struct{Lat;lng}">>}}
        \cup {Var(<<"p", "a", "g", "e">>, FALSE, <<"q", "u", "e", "r", "y", ":", "\"", "p", "a", "g", "e", "\"">>, <<"int32">>)}

\* the names handed to resolveSchema and resolveParameter as GoTypeName
StructNamePool == {"Employee", "Address", "Staff", "Status", "Missing"}

\* the struct declared in the body of a function: GetUser and ListUsers each
\* declare a type Kind of their own
InlineStruct(f) ==
    CASE f = "GetUser" -> <<Var(<<"I", "D">>, TRUE, <<"j", "s", "o", "n", ":", "\"", "i", "d", "\"">>, <<"string">>),
                            Var(<<"n", "o", "t", "e">>, FALSE, <<>>, <<"string">>),
                            Var(<<"K", "i", "n", "d", "s">>, TRUE, <<"j", "s", "o", "n", ":", "\"", "k", "i", "n", "d", "s", "\"">>, <<"[]", "GetUser.Kind">>)>>
      [] f = "ListUsers" -> <<Var(<<"K", "i", "n", "d", "s">>, TRUE, <<"j", "s", "o", "n", ":", "\"", "k", "i", "n", "d", "s", "\"">>, <<"[]", "ListUsers.Kind">>),
                              Var(<<>>, TRUE, <<>>, <<"Employee">>),
                              Var(<<"H", "o", "m", "e">>, TRUE, <<"j", "s", "o", "n", ":", "\"", "-", "\"">>, <<"Address">>),
                              Var(<<"G", "e", "o">>, TRUE, <<>>, <<"struct{Home;Geo}">>)>>

\* the annotations of the fields of a schema: examples/full gives Employee.ID a format
AnnotationsOf(goTypeName) ==
    IF goTypeName \in {"Employee", "Staff"} THEN (<<"I", "D">> :> Annotation("uuid", FALSE)) ELSE <<>>

\* a call and what it returned
Call(fn, var, annotation, paramType, name) ==
    [ok |-> TRUE, fn |-> fn, var |-> var, annotation |-> annotation, paramType |-> paramType,
     name |-> name]
NoVar == Var(<<>>, FALSE, <<>>, <<>>)
FieldResult(one) ==
    [ok |-> TRUE, err |-> "", fields |-> IF one.isNil THEN <<>> ELSE <<one.field>>,
     returns |-> one.returns]
ListResult(got) == [ok |-> TRUE, err |-> "", fields |-> got.fields, returns |-> got.returns]
StructResult(got) == [ok |-> got.ok, err |-> got.err, fields |-> got.fields, returns |-> got.returns]

InitResolve ==
    /\ schemaNames \in SUBSET {"Employee", "Address"}
    /\ typeCache = <<>>
    /\ call = NotRun
    /\ resolvedFields = NotRun
    /\ calls = 0
    /\ ParserIdle
    /\ BraceIdle
    /\ PipelineIdle
    /\ RunsIdle
    /\ PackageIdle
    /\ ExtraIdle

\* the call is made and has returned this
Served(made, result, cache) ==
    /\ calls' = calls + 1
    /\ call' = made
    /\ resolvedFields' = result
    /\ typeCache' = cache
    /\ UNCHANGED <<schemaNames, extraVars, parserVars, braceVars, pipelineVars, runsVars, packageVars>>

\* Resolver.resolveField on a field of a @schema struct
ResolveField ==
    /\ calls < MaxCalls
    /\ \E var \in SchemaFieldPool, annotation \in {NoAnnotation, Annotation("uuid", FALSE)} :
        /\ annotation.present => var.Type \in {<<"string">>, <<"*", "time.Time">>}
        /\ \E one \in {resolveField(typeCache, var, annotation, schemaNames)} :
            Served(Call("resolveField", var, annotation, <<>>, ""), FieldResult(one), one.cache)

\* Resolver.resolveFieldWithParamType on a field of a parameter struct
ResolveFieldWithParamType ==
    /\ calls < MaxCalls
    /\ \E var \in ParamFieldPool, paramType \in {<<"p", "a", "t", "h">>, <<"q", "u", "e", "r", "y">>},
       annotation \in {NoAnnotation, Annotation("", TRUE)} :
        /\ annotation.present => var.Type = <<"string">> /\ paramType = <<"q", "u", "e", "r", "y">>
        /\ \E one \in {resolveFieldWithParamType(typeCache, var, annotation, paramType)} :
            Served(Call("resolveFieldWithParamType", var, annotation, paramType, ""),
                   FieldResult(one), one.cache)

\* Resolver.resolveSchema on a parsed schema
ResolveSchema ==
    /\ calls < MaxCalls
    /\ \E name \in StructNamePool :
        \E got \in {resolveSchema(typeCache, name, AnnotationsOf(name), schemaNames)} :
            Served(Call("resolveSchema", NoVar, NoAnnotation, <<>>, name), StructResult(got), got.cache)

\* Resolver.resolveParameter on a parsed parameter
ResolveParameter ==
    /\ calls < MaxCalls
    /\ \E name \in StructNamePool, paramType \in {<<"q", "u", "e", "r", "y">>} :
        \E got \in {resolveParameter(typeCache, name, AnnotationsOf(name), paramType)} :
            Served(Call("resolveParameter", NoVar, NoAnnotation, paramType, name),
                   StructResult(got), got.cache)

\* Resolver.resolveInlineBody, "Resolve AST struct fields", on the request or
\* response struct declared in a function body
ResolveInlineBody ==
    /\ calls < MaxCalls
    /\ \E f \in {"GetUser", "ListUsers"} :
        \E got \in {resolveInlineStructFields(typeCache, InlineStruct(f), <<"j", "s", "o", "n">>, schemaNames, TRUE)} :
            Served(Call("resolveInlineBody", NoVar, NoAnnotation, <<"j", "s", "o", "n">>, f), ListResult(got), got.cache)

\* Resolver.resolveInlineParams on the parameter struct declared in a function body
ResolveInlineParams ==
    /\ calls < MaxCalls
    /\ \E f \in {"GetUser", "ListUsers"} :
        \E got \in {resolveInlineStructFields(typeCache, InlineStruct(f), <<"q", "u", "e", "r", "y">>, {}, FALSE)} :
            Served(Call("resolveInlineParams", NoVar, NoAnnotation, <<"q", "u", "e", "r", "y">>, f), ListResult(got), got.cache)

NextResolve ==
    \/ ResolveField
    \/ ResolveFieldWithParamType
    \/ ResolveSchema
    \/ ResolveParameter
    \/ ResolveInlineBody
    \/ ResolveInlineParams

SpecResolve == InitResolve /\ [][NextResolve]_vars

-----------------------------------------------------------------------------
(* Properties of the field resolvers *)

\* the fields of a list and of its inline, item and map-value lists, at any depth
RECURSIVE FieldsWithin(_)
FieldsWithin(fields) ==
    UNION {{fields[i]} \cup FieldsWithin(fields[i].InlineFields.fields)
                       \cup FieldsWithin(fields[i].ItemsInlineFields.fields)
                       \cup FieldsWithin(fields[i].MapValueInlineFields.fields) :
           i \in 1..Len(fields)}

\* the last call returned a field list
Answered == calls > 0 /\ resolvedFields.ok /\ resolvedFields.returns

PrimitiveTypes == {"string", "integer", "number", "boolean"}

\* the ways a field is classified
Classes == {"primitive", "array", "map", "inline object", "any value", "unresolved struct"}
ClassifiedAs(f, c) ==
    CASE c = "primitive" -> f.OpenAPIType \in PrimitiveTypes
      [] c = "array" -> f.IsArray
      [] c = "map" -> f.IsMap
      [] c = "inline object" -> ~f.InlineFields.isNil
      [] c = "any value" -> f.IsAnyValue
      [] c = "unresolved struct" -> f.IsUnresolvedStruct

\* C12: every resolved field is classified by exactly one of primitive type, array,
\* map, inline object, any value and reference to a struct that is no schema; the
\* unresolved-struct flag is never set together with the array flag or a primitive
\* OpenAPI type, and the any-value flag never together with an OpenAPI type
C12_OneClassification ==
    Answered =>
        \A f \in FieldsWithin(resolvedFields.fields) :
            /\ Cardinality({c \in Classes : ClassifiedAs(f, c)}) = 1
            /\ ~(f.IsUnresolvedStruct /\ (f.IsArray \/ f.OpenAPIType \in PrimitiveTypes))
            /\ ~(f.IsAnyValue /\ f.OpenAPIType # "")

\* what type resolution decided about a field
Classification(f) ==
    [OpenAPIType |-> f.OpenAPIType, Format |-> f.Format, IsArray |-> f.IsArray,
     ItemsType |-> f.ItemsType, IsAnyValue |-> f.IsAnyValue, IsMap |-> f.IsMap,
     IsUnresolvedStruct |-> f.IsUnresolvedStruct, InlineFields |-> f.InlineFields,
     ItemsInlineFields |-> f.ItemsInlineFields,
     MapValueInlineFields |-> f.MapValueInlineFields]

\* the last call was resolveField on a field declared with a pointer type
PointerFieldResolved ==
    /\ Answered
    /\ call.fn = "resolveField"
    /\ IsPointer(call.var.Type)
    /\ resolvedFields.fields # <<>>

\* the field resolveField returns for the same declaration with the type T in place
\* of *T, on a Resolver that has resolved nothing before
WithoutPointer ==
    resolveField(<<>>, [call.var EXCEPT !.Type = Elem(call.var.Type)], call.annotation,
                 schemaNames).field

\* C13: a field declared with a pointer type *T, T basic, named or an alias, is
\* resolved nullable and otherwise classified as T is
C13_PointerNullable ==
    PointerFieldResolved =>
        /\ resolvedFields.fields[1].Nullable
        /\ Classification(resolvedFields.fields[1]) = Classification(WithoutPointer)

\* a Go identifier is exported when it starts with an upper-case letter
UpperCase ==
    {"A", "B", "C", "D", "E", "F", "G", "H", "I", "J", "K", "L", "M", "N", "O", "P", "Q",
     "R", "S", "T", "U", "V", "W", "X", "Y", "Z"}
IsExportedName(goName) == goName # <<>> /\ goName[1] \in UpperCase

\* C14: no resolved field list, of a schema, a parameter struct, a nested anonymous
\* struct or a struct declared in a function body, holds a field whose Go name is
\* unexported
C14_NoUnexportedField ==
    Answered => \A f \in FieldsWithin(resolvedFields.fields) : IsExportedName(f.GoName)

\* the last call was resolveField on an exported field of a schema struct
ExportedFieldResolved ==
    /\ Answered
    /\ call.fn = "resolveField"
    /\ call.var.Exported

\* the text of a tag value before its first comma
BeforeComma(value) ==
    IF \E i \in 1..Len(value) : value[i] = ","
    THEN SubSeq(value, 1, (CHOOSE i \in 1..Len(value) :
                               value[i] = "," /\ \A j \in 1..(i - 1) : value[j] # ",") - 1)
    ELSE value

\* the values of the json and of the xml tag of the field of the last call
JsonTagValue == TagGet(call.var.Tag, <<"j", "s", "o", "n">>)
XmlTagValue == TagGet(call.var.Tag, <<"x", "m", "l">>)

-----------------------------------------------------------------------------
(* SpecPackage: Resolver.Resolve on a parsed package, then Validator.Validate *)
(* on the resolved package                                                    *)

\* InlineAnnotationSchema["@request"]
InlineSchema_request ==
    SchemaNode(<<"@", "r", "e", "q", "u", "e", "s", "t">>, "BlockAnnotation", {},
        <<"@", "c", "o", "n", "t", "e", "n", "t", "T", "y", "p", "e">> :> SchemaNode(<<"@", "c", "o", "n", "t", "e", "n", "t", "T", "y", "p", "e">>, "ValueAnnotation", {}, NoChildren) @@
        <<"@", "d", "e", "s", "c", "r", "i", "p", "t", "i", "o", "n">> :>
            SchemaNode(<<"@", "d", "e", "s", "c", "r", "i", "p", "t", "i", "o", "n">>, "ValueAnnotation", {"SupportsMultiline"}, NoChildren) @@
        <<"@", "b", "i", "n", "d">> :> SchemaNode(<<"@", "b", "i", "n", "d">>, "ValueAnnotation", {}, NoChildren))

\* extractInlineBlockContent: the lines from the first one that starts with the
\* annotation on
RECURSIVE extractInlineBlockContent(_, _)
extractInlineBlockContent(lines, prefix) ==
    IF lines = <<>> THEN <<>>
    ELSE IF HasPrefix(TrimSpace(Head(lines)), prefix) THEN lines
    ELSE extractInlineBlockContent(Tail(lines), prefix)

\* resolver.ParseInlineAnnotation of an inline @request comment; a nil annotation
\* is a success
ParseInlineRequest(lines) ==
    IF extractInlineBlockContent(lines, <<"@", "r", "e", "q", "u", "e", "s", "t">>) = <<>> THEN Failed("")
    ELSE ParseAnnotationBlock(extractInlineBlockContent(lines, <<"@", "r", "e", "q", "u", "e", "s", "t">>), <<"@", "r", "e", "q", "u", "e", "s", "t">>,
                              InlineSchema_request)
InlineRequestFails(lines) ==
    extractInlineBlockContent(lines, <<"@", "r", "e", "q", "u", "e", "s", "t">>) # <<>> /\ ~ParseInlineRequest(lines).ok

\* the request struct a function declares in its body, with its comment:
\* PackageComments.FuncInlines
NoInlines == [present |-> FALSE, Comment |-> <<>>, StructType |-> <<>>]
FuncInlines(funcName) ==
    CASE funcName = "GetUser" ->
            [present |-> TRUE,
             Comment |-> <<<<"t", "h", "e", " ", "r", "e", "q", "u", "e", "s", "t">>, <<"@", "r", "e", "q", "u", "e", "s", "t", " ", "{">>, <<"@", "c", "o", "n", "t", "e", "n", "t", "T", "y", "p", "e", " ", "j", "s", "o", "n">>, <<"}">>>>,
             StructType |-> InlineStruct("GetUser")]
      [] funcName = "CreateUser" ->
            [present |-> TRUE,
             Comment |-> <<<<"@", "r", "e", "q", "u", "e", "s", "t", " ", "{">>, <<"@", "c", "o", "n", "t", "e", "n", "t", "T", "y", "p", "e", " ", "j", "s", "o", "n">>>>,
             StructType |-> InlineStruct("ListUsers")]
      [] OTHER -> NoInlines

\* the parsed endpoints: references to parameter structs, one response at most,
\* with header references, a body schema and a @bind wrapper
NoBody == [isNil |-> TRUE, Schema |-> <<>>, Bind |-> ""]
Body(schema, bind) == [isNil |-> FALSE, Schema |-> schema, Bind |-> bind]
Response(headerParams, parsedBody) ==
    [StatusCode |-> "200", HeaderParams |-> headerParams, Body |-> parsedBody]
Endpoint(funcName, queryParams, responses) ==
    [FuncName |-> funcName, QueryParams |-> queryParams, Responses |-> responses]
EndpointPool ==
    {Endpoint("GetUser", <<"Paging">>, <<Response(<<>>, Body(<<"Employee">>, ""))>>),
     Endpoint("ListUsers", <<"Paging", "Address">>,
              <<Response(<<"Paging">>, Body(<<"[]", "Office">>, "Employee"))>>),
     Endpoint("CreateUser", <<>>, <<Response(<<>>, NoBody)>>),
     Endpoint("DeleteUser", <<>>, <<>>)}

\* the packages the parser hands over; Parse has required the @api block with its
\* title and version
MaxSchemas == 3
MaxEndpoints == 2
SchemaPool == {"Employee", "Address", "Office", "Status", "Missing"}
ParameterPool == {"Paging", "Address", "Tags"}
SchemaSets == {names \in SUBSET SchemaPool : Cardinality(names) <= MaxSchemas}
EndpointLists ==
    UNION {{list \in [1..n -> EndpointPool] :
               \A i, j \in 1..n : list[i].FuncName = list[j].FuncName => i = j} :
           n \in 0..MaxEndpoints}
ParsedPackages ==
    [ok : {TRUE}, err : {""}, Schemas : SchemaSets,
     Parameters : SUBSET ParameterPool, Endpoints : EndpointLists]

\* what Resolve holds while it runs
Resolving(entries, cache) == [ok |-> TRUE, err |-> "", at |-> "", entries |-> entries, cache |-> cache]
ResolveFailed(msg, at, cache) == [ok |-> FALSE, err |-> msg, at |-> at, entries |-> <<>>, cache |-> cache]

\* &ResolvedSchema{...} and &ResolvedParameter{...}
ResolvedSchema(name, fields) == [Name |-> name, GoTypeName |-> name, Fields |-> fields]
ResolvedParameter(name, fields) ==
    [Name |-> name, Type |-> <<"q", "u", "e", "r", "y">>, GoTypeName |-> name, Fields |-> fields]

\* Resolve, "Resolve schemas": the schemas in the order the map parsed.Schemas yields
RECURSIVE resolveSchemasFrom(_, _, _, _, _)
schemasAfter(got, order, i, names, schemas) ==
    IF ~got.ok THEN ResolveFailed("failed to resolve schema", order[i], got.cache)
    ELSE resolveSchemasFrom(got.cache, order, i + 1, names,
                            (order[i] :> ResolvedSchema(order[i], got.fields)) @@ schemas)
resolveSchemasFrom(cache, order, i, names, schemas) ==
    IF i > Len(order) THEN Resolving(schemas, cache)
    ELSE schemasAfter(resolveSchema(cache, order[i], AnnotationsOf(order[i]), names),
                      order, i, names, schemas)

\* Resolve, "Resolve parameters"
RECURSIVE resolveParametersFrom(_, _, _, _)
parametersAfter(got, order, i, parameters) ==
    IF ~got.ok THEN ResolveFailed("failed to resolve parameter", order[i], got.cache)
    ELSE resolveParametersFrom(got.cache, order, i + 1,
                               (order[i] :> ResolvedParameter(order[i], got.fields)) @@ parameters)
resolveParametersFrom(cache, order, i, parameters) ==
    IF i > Len(order) THEN Resolving(parameters, cache)
    ELSE parametersAfter(resolveParameter(cache, order[i], <<>>, <<"q", "u", "e", "r", "y">>), order, i, parameters)

\* resolveEndpoint, "Resolve parameter references": for _, ref := range refs
\* { if param, ok := parameters[ref]; ok { append } }
RECURSIVE referenced(_, _, _)
referenced(refs, i, parameters) ==
    IF i > Len(refs) THEN <<>>
    ELSE (IF refs[i] \in DOMAIN parameters THEN <<parameters[refs[i]]>> ELSE <<>>)
             \o referenced(refs, i + 1, parameters)

\* resolveBindTarget
NoBind == [isNil |-> TRUE, Wrapper |-> "", WrapperSchema |-> [isNil |-> TRUE, Name |-> ""]]
resolveBindTarget(wrapper, schemas) ==
    IF wrapper = "" THEN NoBind
    ELSE [isNil |-> FALSE, Wrapper |-> wrapper,
          WrapperSchema |-> IF wrapper \in DOMAIN schemas
                            THEN [isNil |-> FALSE, Name |-> schemas[wrapper].Name]
                            ELSE [isNil |-> TRUE, Name |-> ""]]

\* resolveBody: a schema []T or map[string]T has the element type T
resolveBody(parsedBody, schemas) ==
    IF parsedBody.isNil THEN [isNil |-> TRUE, Schema |-> <<>>, ElementType |-> <<>>, Bind |-> NoBind]
    ELSE [isNil |-> FALSE, Schema |-> parsedBody.Schema,
          ElementType |-> IF parsedBody.Schema[1] \in {"[]", "map[string]"}
                          THEN Tail(parsedBody.Schema)
                          ELSE parsedBody.Schema,
          Bind |-> resolveBindTarget(parsedBody.Bind, schemas)]

\* resolveEndpoint, "Resolve responses"
resolveResponses(responses, parameters, schemas) ==
    [i \in 1..Len(responses) |->
        [StatusCode |-> responses[i].StatusCode,
         Body |-> resolveBody(responses[i].Body, schemas),
         Headers |-> referenced(responses[i].HeaderParams, 1, parameters)]]

\* &ResolvedEndpoint{...} with the inline request of the function body
ResolvedEndpoint(endpoint, parameters, schemas, inlineRequest) ==
    [FuncName |-> endpoint.FuncName,
     QueryParams |-> referenced(endpoint.QueryParams, 1, parameters),
     Responses |-> resolveResponses(endpoint.Responses, parameters, schemas),
     InlineRequest |-> inlineRequest]

\* resolveEndpoint: resolveInlineDeclarations parses the comment of the inline
\* request and resolves the declared struct, or fails
resolveEndpoint(cache, endpoint, parameters, schemas, inlines, inlineBody) ==
    IF ~inlines.present
    THEN Resolving(<<ResolvedEndpoint(endpoint, parameters, schemas, NilFields)>>, cache)
    ELSE IF InlineRequestFails(inlines.Comment)
    THEN ResolveFailed("failed to resolve inline declarations", endpoint.FuncName, cache)
    ELSE Resolving(<<ResolvedEndpoint(endpoint, parameters, schemas, FieldList(inlineBody.fields))>>,
                   inlineBody.cache)

\* Resolve, "Resolve endpoints"
RECURSIVE resolveEndpointsFrom(_, _, _, _, _, _)
endpointsAfter(got, list, i, parameters, schemas, endpoints) ==
    IF ~got.ok THEN ResolveFailed("failed to resolve endpoint", got.at, got.cache)
    ELSE resolveEndpointsFrom(got.cache, list, i + 1, parameters, schemas,
                              endpoints \o got.entries)
resolveEndpointsFrom(cache, list, i, parameters, schemas, endpoints) ==
    IF i > Len(list) THEN Resolving(endpoints, cache)
    ELSE endpointsAfter(
             resolveEndpoint(cache, list[i], parameters, schemas, FuncInlines(list[i].FuncName),
                             resolveInlineStructFields(cache, FuncInlines(list[i].FuncName).StructType,
                                                       <<"j", "s", "o", "n">>, DOMAIN schemas, TRUE)),
             list, i, parameters, schemas, endpoints)

\* what Resolve returns: a *ResolvedPackage and a nil error, or nil and an error
ResolvedPackage(schemas, parameters, endpoints) ==
    [ok |-> TRUE, err |-> "", at |-> "", isNil |-> FALSE, Schemas |-> schemas,
     Parameters |-> parameters, Endpoints |-> endpoints]
NoPackage(failed) ==
    [ok |-> FALSE, err |-> failed.err, at |-> failed.at, isNil |-> TRUE,
     Schemas |-> <<>>, Parameters |-> <<>>, Endpoints |-> <<>>]

\* Resolver.Resolve
withEndpoints(schemas, parameters, endpoints) ==
    IF ~endpoints.ok THEN NoPackage(endpoints)
    ELSE ResolvedPackage(schemas.entries, parameters.entries, endpoints.entries)
withParameters(pkg, schemas, parameters) ==
    IF ~parameters.ok THEN NoPackage(parameters)
    ELSE withEndpoints(schemas, parameters,
                       resolveEndpointsFrom(parameters.cache, pkg.Endpoints, 1, parameters.entries,
                                            schemas.entries, <<>>))
withSchemas(pkg, schemas, parameterOrder) ==
    IF ~schemas.ok THEN NoPackage(schemas)
    ELSE withParameters(pkg, schemas, resolveParametersFrom(schemas.cache, parameterOrder, 1, <<>>))
ResolverResolve(pkg, schemaOrder, parameterOrder) ==
    withSchemas(pkg, resolveSchemasFrom(<<>>, schemaOrder, 1, pkg.Schemas, <<>>), parameterOrder)

\* Validator.addError
ValidationError(path, field, message) == [Path |-> path, Field |-> field, Message |-> message]

\* the errors of the items of a list, one after the other
RECURSIVE errorsFrom(_, _)
errorsFrom(lists, i) == IF i > Len(lists) THEN <<>> ELSE lists[i] \o errorsFrom(lists, i + 1)

\* Validator.validateField; the fields of the model carry no @enum, @minimum,
\* @maximum, length, items or pattern constraint, whose checks find nothing
validateField(path, field) ==
    IF field.IsUnresolvedStruct
    THEN <<ValidationError(path, field.GoName, "field references struct which is not a @schema")>>
    ELSE <<>>

\* "Check for duplicate field names"
duplicateNames(path, fields) ==
    errorsFrom([i \in 1..Len(fields) |->
                   IF \E j \in 1..(i - 1) : fields[j].Name = fields[i].Name
                   THEN <<ValidationError(path, <<>>, "duplicate field name")>> ELSE <<>>], 1)

\* Validator.validateSchema
validateSchema(name, schema) ==
    (IF Len(schema.Fields) = 0
     THEN <<ValidationError(<<"@schema", name>>, <<>>, "schema has no fields")>> ELSE <<>>)
        \o errorsFrom([i \in 1..Len(schema.Fields) |->
                          validateField(<<"@schema", name>>, schema.Fields[i])], 1)
        \o duplicateNames(<<"@schema", name>>, schema.Fields)

\* Validator.validateParameterField
validateParameterField(path, paramType, field) ==
    (IF paramType = <<"p", "a", "t", "h">> /\ field.Nullable
     THEN <<ValidationError(path, field.GoName, "path parameters cannot be nullable")>> ELSE <<>>)
        \o (IF paramType \in {<<"p", "a", "t", "h">>, <<"h", "e", "a", "d", "e", "r">>, <<"c", "o", "o", "k", "i", "e">>} /\ field.IsArray
            THEN <<ValidationError(path, field.GoName, "parameters cannot be arrays")>> ELSE <<>>)
        \o validateField(path, field)

\* Validator.validateParameter
validateParameter(name, param) ==
    (IF Len(param.Fields) = 0
     THEN <<ValidationError(<<"@query", name>>, <<>>, "parameter has no fields")>> ELSE <<>>)
        \o errorsFrom([i \in 1..Len(param.Fields) |->
                          validateParameterField(<<"@query", name>>, param.Type, param.Fields[i])], 1)
        \o duplicateNames(<<"@query", name>>, param.Fields)

\* isPrimitiveType
isPrimitiveType(typeName) ==
    typeName \in {"string", "int", "int8", "int16", "int32", "int64", "uint", "uint8", "uint16",
                  "uint32", "uint64", "float32", "float64", "bool", "byte"}

\* Validator.validateResponse
validateResponse(path, response, schemas) ==
    IF /\ ~response.Body.isNil
       /\ ~isPrimitiveType(response.Body.ElementType[1])
       /\ response.Body.ElementType[1] \notin DOMAIN schemas
    THEN <<ValidationError(path, <<>>, "references unknown schema")>>
    ELSE <<>>

\* Validator.validateParameterConflicts over the query parameters
validateParameterConflicts(path, endpoint) ==
    duplicateNames(path, errorsFrom([i \in 1..Len(endpoint.QueryParams) |->
                                        endpoint.QueryParams[i].Fields], 1))

\* Validator.validateEndpoint; the endpoints of EndpointPool have a valid method, a
\* path without variables, no @request and no tags
validateEndpoint(endpoint, pkg) ==
    (IF Len(endpoint.Responses) = 0
     THEN <<ValidationError(<<"@endpoint", endpoint.FuncName>>, <<>>,
                            "endpoint must have at least one response")>>
     ELSE <<>>)
        \o errorsFrom([i \in 1..Len(endpoint.Responses) |->
                          validateResponse(<<"@endpoint", endpoint.FuncName>>,
                                           endpoint.Responses[i], pkg.Schemas)], 1)
        \o validateParameterConflicts(<<"@endpoint", endpoint.FuncName>>, endpoint)

\* what Validate returns: nil, or a *MultiError with every error that was added
Validated(errors) ==
    [ok |-> errors = <<>>, err |-> IF errors = <<>> THEN "" ELSE "validation errors",
     errors |-> errors]

\* Validator.Validate, the schemas and the parameters in the order the maps yield
ValidatorValidate(pkg, schemaOrder, parameterOrder) ==
    Validated(
        errorsFrom([i \in 1..Len(schemaOrder) |->
                       validateSchema(schemaOrder[i], pkg.Schemas[schemaOrder[i]])], 1)
            \o errorsFrom([i \in 1..Len(parameterOrder) |->
                              validateParameter(parameterOrder[i],
                                                pkg.Parameters[parameterOrder[i]])], 1)
            \o errorsFrom([i \in 1..Len(pkg.Endpoints) |->
                              validateEndpoint(pkg.Endpoints[i], pkg)], 1))

InitPackage ==
    /\ parsedPackage \in ParsedPackages
    /\ resolvedPackage = NotRun
    /\ validation = NotRun
    /\ ParserIdle
    /\ BraceIdle
    /\ PipelineIdle
    /\ RunsIdle
    /\ ResolverIdle
    /\ ExtraIdle

\* generate, "Resolve types": Resolver.Resolve on a new Resolver
ResolvePackage ==
    /\ ~Ran(resolvedPackage)
    /\ \E schemaOrder \in RangeOrders(parsedPackage.Schemas),
          parameterOrder \in RangeOrders(parsedPackage.Parameters) :
        resolvedPackage' = ResolverResolve(parsedPackage, schemaOrder, parameterOrder)
    /\ UNCHANGED <<parsedPackage, validation, extraVars, parserVars, braceVars, pipelineVars, runsVars,
                   resolverVars>>

\* generate, "Validate": Validator.Validate on the resolved package
ValidatePackage ==
    /\ resolvedPackage.ok
    /\ ~Ran(validation)
    /\ \E schemaOrder \in RangeOrders(DOMAIN resolvedPackage.Schemas),
          parameterOrder \in RangeOrders(DOMAIN resolvedPackage.Parameters) :
        validation' = ValidatorValidate(resolvedPackage, schemaOrder, parameterOrder)
    /\ UNCHANGED <<parsedPackage, resolvedPackage, extraVars, parserVars, braceVars, pipelineVars, runsVars,
                   resolverVars>>

NextPackage ==
    \/ ResolvePackage
    \/ ValidatePackage

SpecPackage == InitPackage /\ [][NextPackage]_vars

-----------------------------------------------------------------------------
(* Properties of Resolve and Validate *)

\* Resolve has returned a package
PackageResolved == Ran(resolvedPackage) /\ resolvedPackage.ok

\* the names of the resolved parameters of a list
NamesOf(params) == [i \in 1..Len(params) |-> params[i].Name]

\* C16: after a successful Resolve the query parameter list of every endpoint and
\* the header list of every response hold one resolved parameter per reference of
\* the annotation, in the same order, and every resolved @bind target points to
\* its resolved wrapper schema
C16_ReferencesResolved ==
    PackageResolved =>
        \A i \in 1..Len(resolvedPackage.Endpoints) :
            /\ NamesOf(resolvedPackage.Endpoints[i].QueryParams)
                   = parsedPackage.Endpoints[i].QueryParams
            /\ \A k \in 1..Len(resolvedPackage.Endpoints[i].Responses) :
                /\ NamesOf(resolvedPackage.Endpoints[i].Responses[k].Headers)
                       = parsedPackage.Endpoints[i].Responses[k].HeaderParams
                /\ ~resolvedPackage.Endpoints[i].Responses[k].Body.Bind.isNil =>
                       /\ ~resolvedPackage.Endpoints[i].Responses[k].Body.Bind.WrapperSchema.isNil
                       /\ resolvedPackage.Endpoints[i].Responses[k].Body.Bind.WrapperSchema.Name
                              = resolvedPackage.Endpoints[i].Responses[k].Body.Bind.Wrapper

\* the name is absent from the package scope or names a type that is no struct
NotAStruct(name) == name \notin PackageScope \/ ~IsStruct(UnderlyingOf(name))

\* a parsed schema or parameter names such a type
BadDeclaration ==
    \E name \in parsedPackage.Schemas \cup parsedPackage.Parameters : NotAStruct(name)

\* the comment of a declaration in the body of an endpoint's function does not parse
BadInlineDeclaration ==
    \E i \in 1..Len(parsedPackage.Endpoints) :
        /\ FuncInlines(parsedPackage.Endpoints[i].FuncName).present
        /\ InlineRequestFails(FuncInlines(parsedPackage.Endpoints[i].FuncName).Comment)

\* Resolve returned an error and no package
ResolveRefused == ~resolvedPackage.ok /\ resolvedPackage.isNil

\* Resolve returned a package with one entry per parsed schema and parameter
ResolveDelivered ==
    /\ resolvedPackage.ok
    /\ ~resolvedPackage.isNil
    /\ DOMAIN resolvedPackage.Schemas = parsedPackage.Schemas
    /\ DOMAIN resolvedPackage.Parameters = parsedPackage.Parameters

\* C17 as stated: Resolve returns an error and no package whenever a parsed schema
\* or parameter names a type that is absent or no struct, and otherwise a package
\* with exactly one entry per parsed schema and parameter
C17_ErrorOrPackage ==
    Ran(resolvedPackage) => IF BadDeclaration THEN ResolveRefused ELSE ResolveDelivered

\* C17: Resolve returns an error and no package whenever a parsed schema or
\* parameter names a type that is absent or no struct, or the comment of an inline
\* declaration of an endpoint does not parse; otherwise it returns a package with
\* exactly one entry per parsed schema and parameter
C17_ErrorOrPackageUnlessInline ==
    Ran(resolvedPackage) =>
        IF BadDeclaration \/ BadInlineDeclaration THEN ResolveRefused ELSE ResolveDelivered

\* Resolve refused a package for the schema Status, whose type is no struct
C17_Witness ==
    /\ Ran(resolvedPackage)
    /\ "Status" \in parsedPackage.Schemas
    /\ ResolveRefused
    /\ resolvedPackage.err = "failed to resolve schema"
    /\ resolvedPackage.at = "Status"

\* Validate reported the field of the schema or parameter as a reference to a
\* struct that is no @schema
Reported(kind, name, f) ==
    \E k \in 1..Len(validation.errors) :
        /\ validation.errors[k].Path = <<kind, name>>
        /\ validation.errors[k].Field = f.GoName
        /\ validation.errors[k].Message = "field references struct which is not a @schema"

\* a parsed schema has a field, at some depth, whose type is a named struct of the
\* package that is not declared as @schema
RefersToUndeclaredStruct ==
    /\ "Office" \in parsedPackage.Schemas
    /\ "Address" \notin parsedPackage.Schemas

\* C18: a field whose type is a named struct not declared as @schema never makes
\* Resolve fail, and Validate reports every flagged field of the resolved package,
\* at any nesting depth, in the one error it returns
C18_FlaggedFieldsReported ==
    /\ Ran(resolvedPackage) /\ RefersToUndeclaredStruct /\ ~BadDeclaration
           /\ ~BadInlineDeclaration
       => resolvedPackage.ok
    /\ Ran(validation) =>
        /\ \A name \in DOMAIN resolvedPackage.Schemas :
               \A f \in FieldsWithin(resolvedPackage.Schemas[name].Fields) :
                   f.IsUnresolvedStruct => Reported("@schema", name, f)
        /\ \A name \in DOMAIN resolvedPackage.Parameters :
               \A f \in FieldsWithin(resolvedPackage.Parameters[name].Fields) :
                   f.IsUnresolvedStruct => Reported("@query", name, f)

\* the types a next resolution may be asked for: the types of the fields, and the
\* slices of the two types Kind declared in function bodies
ResolvableTypes == TypePool \cup {<<"[]", "GetUser.Kind">>, <<"[]", "ListUsers.Kind">>}

\* C19: after any sequence of calls on one Resolver, resolveType returns for every
\* type the TypeInfo that a Resolver with an empty typeCache returns for it
C19_CacheConsistent ==
    \A t \in ResolvableTypes : resolveType(typeCache, t).info = resolveType(<<>>, t).info

\* the types that refer to the schema Employee from its own fields, and by value
SelfReferences == {<<"*", "Employee">>, <<"[]", "Employee">>, <<"Employee">>}

\* the field holds a reference to a named schema: no field list is inlined in it
HoldsReference(f) ==
    /\ f.InlineFields.isNil
    /\ f.ItemsInlineFields.isNil
    /\ f.MapValueInlineFields.isNil

\* C20: every call of a resolver returns, also on the schema Employee whose fields
\* Manager *Employee and DirectReports []Employee refer to the schema itself, and
\* a field of such a type, at any depth, inlines no field list: it keeps the name
\* of the schema as its type, flagged only when Employee is no @schema
C20_SelfReferenceTerminates ==
    calls > 0 =>
        /\ resolvedFields.returns
        /\ resolvedFields.ok =>
               \A f \in FieldsWithin(resolvedFields.fields) :
                   f.GoType \in SelfReferences => HoldsReference(f)
        /\ call.fn = "resolveSchema" /\ call.name \in {"Employee", "Staff"} =>
               /\ resolvedFields.ok
               /\ Len(resolvedFields.fields) = 3
               /\ resolvedFields.fields[2].GoType = <<"*", "Employee">>
               /\ resolvedFields.fields[3].GoType = <<"[]", "Employee">>
               /\ resolvedFields.fields[2].IsUnresolvedStruct = ("Employee" \notin schemaNames)
               /\ resolvedFields.fields[3].IsUnresolvedStruct = ("Employee" \notin schemaNames)

\* resolveSchema has returned the three fields of Employee, Manager as a reference
C20_Witness ==
    /\ calls > 0
    /\ call.fn = "resolveSchema"
    /\ call.name = "Employee"
    /\ "Employee" \in schemaNames
    /\ resolvedFields.ok
    /\ resolvedFields.returns
    /\ Len(resolvedFields.fields) = 3
    /\ resolvedFields.fields[2].GoName = <<"M", "a", "n", "a", "g", "e", "r">>
    /\ resolvedFields.fields[2].InlineFields.isNil
    /\ resolvedFields.fields[3].ItemsInlineFields.isNil
    /\ ~resolvedFields.fields[2].IsUnresolvedStruct

-----------------------------------------------------------------------------
(* SpecGeneric: generic @schema structs and the type aliases that instantiate *)
(* them, from ExtractComments over parseSchemas and Resolve to the component  *)
(* schemas of the generator                                                   *)

\* the type declarations of one package
MaxDecls == 4

\* a struct field of go/types: its name and its type as field.Type().String()
GoField(goName, goType) == [GoName |-> goName, GoType |-> goType]

\* an ast.TypeSpec with what go/types knows of it: Local is a declaration in a
\* function body, Assign the "=" of an alias, Target the aliased type expression,
\* Doc the annotation of its doc comment, Fields the fields of its underlying struct
TypeSpec(name, isLocal, assign, typeParams, target, doc, fields) ==
    [Name |-> name, Local |-> isLocal, Assign |-> assign, TypeParams |-> typeParams,
     Target |-> target, Doc |-> doc, Fields |-> fields]

\* type APIResponse[T any] struct { Status string; Data T }
APIResponseFields(arg) == <<GoField("Status", <<"s", "t", "r", "i", "n", "g">>), GoField("Data", arg)>>

DeclPool ==
    {TypeSpec("APIResponse", FALSE, FALSE, 1, <<>>, "@schema", APIResponseFields(<<"T">>)),
     TypeSpec("User", FALSE, FALSE, 0, <<>>, "@schema", <<GoField("ID", <<"s", "t", "r", "i", "n", "g">>)>>),
     TypeSpec("UserResponse", FALSE, TRUE, 0, <<"A", "P", "I", "R", "e", "s", "p", "o", "n", "s", "e", "[", "U", "s", "e", "r", "]">>, "", APIResponseFields(<<"U", "s", "e", "r">>)),
     TypeSpec("UserList", FALSE, TRUE, 0, <<"A", "P", "I", "R", "e", "s", "p", "o", "n", "s", "e", "[", "[", "]", "U", "s", "e", "r", "]">>, "", APIResponseFields(<<"[", "]", "U", "s", "e", "r">>)),
     TypeSpec("APIResponse", TRUE, FALSE, 0, <<>>, "", <<GoField("Code", <<"i", "n", "t">>)>>),
     TypeSpec("APIResponse", TRUE, FALSE, 0, <<>>, "@response", <<GoField("Code", <<"i", "n", "t">>)>>),
     TypeSpec("UserResponse", TRUE, FALSE, 0, <<>>, "@response", <<GoField("OK", <<"b", "o", "o", "l">>)>>)}

\* the packages that compile: no declaration twice, and an alias of APIResponse
\* only together with the package-level APIResponse and User
Compiles(ds) ==
    /\ \A i, j \in 1..Len(ds) : i # j => ds[i] # ds[j]
    /\ \A i, j \in 1..Len(ds) :
           i # j /\ ds[i].Name = ds[j].Name => ds[i].Local \/ ds[j].Local
    /\ \A i \in 1..Len(ds) :
           ds[i].Assign =>
               /\ \E j \in 1..Len(ds) : ds[j].Name = "APIResponse" /\ ~ds[j].Local
               /\ \E j \in 1..Len(ds) : ds[j].Name = "User"
DeclLists == {ds \in UNION {[1..n -> DeclPool] : n \in 1..MaxDecls} : Compiles(ds)}

\* ExtractComments, the case *ast.GenDecl of the callback of ast.Inspect, for the
\* declarations from i on: every type declaration of a file is visited, those in
\* function bodies too, and the maps are keyed by the name of the type
RECURSIVE inspectFrom(_, _, _, _)
inspectFrom(ds, i, typeInfo, comments) ==
    IF i > Len(ds) THEN [ok |-> TRUE, err |-> "", TypeInfo |-> typeInfo, StructComments |-> comments]
    ELSE inspectFrom(ds, i + 1,
            (ds[i].Name :> [IsGeneric |-> ds[i].TypeParams > 0, IsTypeAlias |-> ds[i].Assign,
                            AliasOf |-> IF ds[i].Assign THEN ds[i].Target ELSE <<>>]) @@ typeInfo,
            IF ds[i].Doc # "" THEN (ds[i].Name :> ds[i].Doc) @@ comments ELSE comments)

ExtractComments(ds) == inspectFrom(ds, 1, <<>>, <<>>)

\* extractBaseType
extractBaseType(typeName) ==
    IF Index(typeName, "[") > 0 THEN Slice(typeName, 0, Index(typeName, "[")) ELSE typeName

\* extractTypeArg
extractTypeArg(aliasOf) ==
    IF Index(aliasOf, "[") > 0 /\ LastIndex(aliasOf, "]") > Index(aliasOf, "[")
    THEN Slice(aliasOf, Index(aliasOf, "[") + 1, LastIndex(aliasOf, "]"))
    ELSE <<>>

\* the name a type expression spells, as a key of the maps
NameOf(text) == CHOOSE n \in {"APIResponse", "User", "UserResponse", "UserList", ""} :
                    \/ n = "APIResponse" /\ text = <<"A", "P", "I", "R", "e", "s", "p", "o", "n", "s", "e">>
                    \/ n = "User" /\ text = <<"U", "s", "e", "r">>
                    \/ n = "UserResponse" /\ text = <<"U", "s", "e", "r", "R", "e", "s", "p", "o", "n", "s", "e">>
                    \/ n = "UserList" /\ text = <<"U", "s", "e", "r", "L", "i", "s", "t">>
                    \/ n = "" /\ text \notin {<<"A", "P", "I", "R", "e", "s", "p", "o", "n", "s", "e">>, <<"U", "s", "e", "r">>, <<"U", "s", "e", "r", "R", "e", "s", "p", "o", "n", "s", "e">>, <<"U", "s", "e", "r", "L", "i", "s", "t">>}

\* parseSchemas, "First pass: parse @schema annotated structs"; the structs of the
\* model have no @field comments
firstPass(ex) ==
    [n \in {m \in DOMAIN ex.StructComments : ex.StructComments[m] = "@schema"} |->
        [Name |-> n, GoTypeName |-> n, IsGeneric |-> ex.TypeInfo[n].IsGeneric,
         IsTypeAlias |-> ex.TypeInfo[n].IsTypeAlias, AliasOf |-> ex.TypeInfo[n].AliasOf]]

\* parseSchemas, "Second pass: detect type aliases that instantiate generic schemas"
secondPass(ex, schemas) ==
    [n \in {m \in DOMAIN ex.TypeInfo :
                /\ m \notin DOMAIN schemas
                /\ ex.TypeInfo[m].IsTypeAlias
                /\ ex.TypeInfo[m].AliasOf # <<>>
                /\ NameOf(extractBaseType(ex.TypeInfo[m].AliasOf)) \in DOMAIN schemas
                /\ schemas[NameOf(extractBaseType(ex.TypeInfo[m].AliasOf))].IsGeneric} |->
        [Name |-> n, GoTypeName |-> n, IsGeneric |-> FALSE, IsTypeAlias |-> TRUE,
         AliasOf |-> ex.TypeInfo[n].AliasOf]]

\* Parser.parseSchemas
parseSchemas(ex) ==
    [ok |-> TRUE, err |-> "", Schemas |-> secondPass(ex, firstPass(ex)) @@ firstPass(ex)]

\* r.pkg.Types.Scope().Lookup: the declarations of the package scope with this name
Lookup(ds, name) == {i \in 1..Len(ds) : ds[i].Name = name /\ ~ds[i].Local}

\* Resolver.resolveSchema, the flags of the schema and the fields of the struct
\* that the package scope holds under its name
resolveGenericSchema(schema, ds) ==
    IF Lookup(ds, schema.GoTypeName) = {}
    THEN [ok |-> FALSE, err |-> "struct not found in package"]
    ELSE [ok |-> TRUE, err |-> "", Name |-> schema.Name, IsGeneric |-> schema.IsGeneric,
          IsTypeAlias |-> schema.IsTypeAlias, AliasOf |-> schema.AliasOf,
          TypeArg |-> IF schema.IsTypeAlias /\ schema.AliasOf # <<>>
                      THEN extractTypeArg(schema.AliasOf) ELSE <<>>,
          Fields |-> ds[CHOOSE i \in Lookup(ds, schema.GoTypeName) : TRUE].Fields]

\* Resolver.Resolve, "Resolve schemas"
resolveGenericSchemas(schemas, ds) ==
    IF \E n \in DOMAIN schemas : ~resolveGenericSchema(schemas[n], ds).ok
    THEN [ok |-> FALSE, err |-> "failed to resolve schema"]
    ELSE [ok |-> TRUE, err |-> "",
          Schemas |-> [n \in DOMAIN schemas |-> resolveGenericSchema(schemas[n], ds)]]

\* Generator.generateSchemas: the names set in the component schemas
generateSchemas(schemas) ==
    [ok |-> TRUE, err |-> "", names |-> {n \in DOMAIN schemas : ~schemas[n].IsGeneric}]

InitGeneric ==
    /\ decls \in DeclLists
    /\ extracted = NotRun
    /\ parsedSchemas = NotRun
    /\ resolvedSchemas = NotRun
    /\ components = NotRun
    /\ ParserIdle
    /\ BraceIdle
    /\ PipelineIdle
    /\ RunsIdle
    /\ ResolverIdle
    /\ PackageIdle
    /\ BesideGenericIdle

\* Parser.Parse: ExtractComments on the package
ExtractDecls ==
    /\ ~Ran(extracted)
    /\ decls # <<>>
    /\ extracted' = ExtractComments(decls)
    /\ UNCHANGED <<decls, parsedSchemas, resolvedSchemas, components, besideGeneric>>

\* Parser.Parse: parseSchemas on the extracted comments
ParseSchemas ==
    /\ extracted.ok
    /\ ~Ran(parsedSchemas)
    /\ parsedSchemas' = parseSchemas(extracted)
    /\ UNCHANGED <<decls, extracted, resolvedSchemas, components, besideGeneric>>

\* generate, "Resolve types": the schemas of Resolver.Resolve
ResolveSchemas ==
    /\ parsedSchemas.ok
    /\ ~Ran(resolvedSchemas)
    /\ resolvedSchemas' = resolveGenericSchemas(parsedSchemas.Schemas, decls)
    /\ UNCHANGED <<decls, extracted, parsedSchemas, components, besideGeneric>>

\* generate, "Generate OpenAPI spec": generateSchemas on the resolved schemas
GenerateSchemas ==
    /\ resolvedSchemas.ok
    /\ ~Ran(components)
    /\ components' = generateSchemas(resolvedSchemas.Schemas)
    /\ UNCHANGED <<decls, extracted, parsedSchemas, resolvedSchemas, besideGeneric>>

NextGeneric ==
    \/ ExtractDecls
    \/ ParseSchemas
    \/ ResolveSchemas
    \/ GenerateSchemas

SpecGeneric == InitGeneric /\ [][NextGeneric]_vars

\* the package-level declarations of a @schema struct with type parameters
GenericSchemaDecls ==
    {i \in 1..Len(decls) : ~decls[i].Local /\ ~decls[i].Assign /\ decls[i].TypeParams > 0
                              /\ decls[i].Doc = "@schema"}

\* the package-level aliases of an instantiation of such a struct
InstantiatingAliases ==
    {i \in 1..Len(decls) : ~decls[i].Local /\ decls[i].Assign /\ GenericSchemaDecls # {}}

\* C21: every @schema struct with type parameters is parsed and resolved, flagged
\* generic and left out of the component schemas; every alias of an instantiation
\* of it yields a schema under the name of the alias that is emitted, is not flagged
\* generic, is flagged as an alias, records the type argument and has the fields of
\* the instantiated struct
C21_GenericTemplates ==
    Ran(components) =>
        /\ \A i \in GenericSchemaDecls :
            /\ decls[i].Name \in DOMAIN parsedSchemas.Schemas
            /\ decls[i].Name \in DOMAIN resolvedSchemas.Schemas
            /\ resolvedSchemas.Schemas[decls[i].Name].IsGeneric
            /\ decls[i].Name \notin components.names
        /\ \A i \in InstantiatingAliases :
            /\ decls[i].Name \in DOMAIN resolvedSchemas.Schemas
            /\ decls[i].Name \in components.names
            /\ ~resolvedSchemas.Schemas[decls[i].Name].IsGeneric
            /\ resolvedSchemas.Schemas[decls[i].Name].IsTypeAlias
            /\ resolvedSchemas.Schemas[decls[i].Name].TypeArg
                   = decls[i].Fields[2].GoType
            /\ resolvedSchemas.Schemas[decls[i].Name].Fields = decls[i].Fields

\* the same when no type declared in a function body has the name of a
\* package-level type
C21_Unshadowed ==
    (\A i, j \in 1..Len(decls) : i # j => decls[i].Name # decls[j].Name) => C21_GenericTemplates

\* the last call was resolveField or resolveFieldWithParamType, without a @nullable
\* annotation, on a field of a basic type or of a pointer to one, and returned the field
BasicFieldResolved ==
    /\ Answered
    /\ call.fn \in {"resolveField", "resolveFieldWithParamType"}
    /\ ~call.annotation.Nullable
    /\ IsBasic(unwrapPointer(call.var.Type))
    /\ resolvedFields.fields # <<>>

\* the tag of the field of the last call has the option omitempty
TaggedOmitempty == Contains(call.var.Tag, <<",", "o", "m", "i", "t", "e", "m", "p", "t", "y">>)

\* C22: a non-pointer field without omitempty is required and not nullable, a
\* pointer field is not required and nullable, and a non-pointer field with
\* omitempty is not required and not nullable
C22_RequiredByTypeAndTag ==
    BasicFieldResolved =>
        /\ resolvedFields.fields[1].Nullable = IsPointer(call.var.Type)
        /\ resolvedFields.fields[1].Required
               = (~IsPointer(call.var.Type) /\ ~TaggedOmitempty)

-----------------------------------------------------------------------------
(* SpecEscape: UnescapeValue on the escaped form of a literal text *)

\* the length of the literal texts
MaxLiteral == 4

\* the literal texts: a letter and the four characters that are escaped
Literals == UNION {[1..n -> {"a", LB, RB, AT, BS}] : n \in 0..MaxLiteral}

\* the escaped form the annotations and the tests are written in: a backslash in
\* front of each of { } @ and backslash
RECURSIVE Escape(_)
Escape(s) ==
    IF s = <<>> THEN <<>>
    ELSE IF Head(s) \in {LB, RB, AT, BS} THEN <<BS, Head(s)>> \o Escape(Tail(s))
    ELSE <<Head(s)>> \o Escape(Tail(s))

\* the forms a literal text is written in: every backslash escaped, and a brace or
\* an @ escaped or, where it is a real one, left as it is
RECURSIVE WrittenForms(_)
WrittenForms(s) ==
    IF s = <<>> THEN {<<>>}
    ELSE {c \o rest : c \in (IF Head(s) = BS THEN {<<BS, BS>>}
                             ELSE IF Head(s) \in {LB, RB, AT} THEN {<<BS, Head(s)>>, <<Head(s)>>}
                             ELSE {<<Head(s)>>}),
                      rest \in WrittenForms(Tail(s))}

InitEscape ==
    /\ literal \in Literals
    /\ escaped \in WrittenForms(literal)
    /\ unescaped = NotRun
    /\ ParserIdle
    /\ BraceIdle
    /\ PipelineIdle
    /\ RunsIdle
    /\ ResolverIdle
    /\ PackageIdle
    /\ BesideEscapeIdle

\* UnescapeValue on the escaped text
Unescape ==
    /\ ~Ran(unescaped)
    /\ unescaped' = [ok |-> TRUE, err |-> "", value |-> UnescapeValue(escaped)]
    /\ UNCHANGED <<literal, escaped, besideEscape>>

NextEscape == Unescape

SpecEscape == InitEscape /\ [][NextEscape]_vars

\* C23: UnescapeValue returns the literal text for its escaped form, and for every
\* written form of it; the text \\{ yields a backslash followed by a brace
C23_EscapeRoundTrip ==
    Ran(unescaped) =>
        /\ unescaped.value = literal
        /\ UnescapeValue(Escape(literal)) = literal
        /\ escaped = <<BS, BS, LB>> => unescaped.value = <<BS, LB>>

\* the escaped text \\{ has been unescaped
C23_Witness ==
    /\ Ran(unescaped)
    /\ escaped = <<BS, BS, LB>>
    /\ literal = <<BS, LB>>
    /\ unescaped.value = <<BS, LB>>

-----------------------------------------------------------------------------
(* Properties of the values of the children *)

\* the lines between the braces of the multi-line form
ContentLines == Flatten(kids)

\* the annotation name a line starts with: the text before its first space
LeadingWord(line) ==
    IF \E i \in 1..Len(line) : line[i] = SP
    THEN SubSeq(line, 1, (CHOOSE i \in 1..Len(line) : line[i] = SP /\ \A j \in 1..(i - 1) : line[j] # SP) - 1)
    ELSE line

\* the line starts with an unescaped @ that names a declared child of the block
NamesSibling(line) ==
    /\ line # <<>>
    /\ line[1] = AT
    /\ LeadingWord(line) \in DOMAIN TargetNode(node).Children

\* the non-empty lines after line i up to the first that names a sibling, each
\* with a newline in front
RECURSIVE FollowingLines(_)
FollowingLines(i) ==
    IF i > Len(ContentLines) \/ NamesSibling(ContentLines[i]) THEN <<>>
    ELSE IF TrimSpace(ContentLines[i]) = <<>> THEN FollowingLines(i + 1)
    ELSE <<NL>> \o TrimSpace(ContentLines[i]) \o FollowingLines(i + 1)

\* the value of the child that line i starts
ValueFrom(i, childNode) ==
    UnescapeValue(TrimSpace(SubSeq(ContentLines[i], Len(childNode.Name) + 1, Len(ContentLines[i])))
                      \o IF childNode.SupportsMultiline THEN FollowingLines(i + 1) ELSE <<>>)

\* the child is a value child and some line of the block starts it with this value
ValueAsWritten(child) ==
    LET childNode == TargetNode(node).Children[child.Name]
    IN  childNode.Type = "ValueAnnotation" =>
            \E i \in 1..Len(ContentLines) :
                /\ LeadingWord(ContentLines[i]) = child.Name
                /\ child.Value = ValueFrom(i, childNode)

\* the content is in multi-line format: not one line with more than one unescaped @
MultiLineFormat == ~(Len(ContentLines) = 1 /\ isInlineContent(ContentLines[1]))

\* C24: in multi-line format the value of a child that supports multi-line
\* values is the text of its first line and every following non-empty line,
\* trimmed and joined by newlines, up to the first line that starts with an
\* unescaped @ naming a declared sibling; the value of any other value child is
\* the text of its first line
C24_MultilineValue ==
    multiOut.ok /\ MultiLineFormat =>
        /\ \A name \in DOMAIN multiOut.pa.Children : ValueAsWritten(multiOut.pa.Children[name])
        /\ \A name \in DOMAIN multiOut.pa.RepeatedChildren :
               \A k \in 1..Len(multiOut.pa.RepeatedChildren[name]) :
                   ValueAsWritten(multiOut.pa.RepeatedChildren[name][k])

\* a @field block with the lines "@description a" and "more" is parsed
C24_Witness ==
    /\ multiOut.ok
    /\ node = "field"
    /\ kids = <<<<<<"@", "d", "e", "s", "c", "r", "i", "p", "t", "i", "o", "n", " ", "a">>>>, <<<<"m", "o", "r", "e">>>>>>
    /\ MultiLineFormat
    /\ multiOut.pa.Children[<<"@", "d", "e", "s", "c", "r", "i", "p", "t", "i", "o", "n">>].Value = <<"a", NL>> \o <<"m", "o", "r", "e">>

-----------------------------------------------------------------------------
(* Validate on a package whose API may be missing *)

\* ResolvedPackage.API: Resolve copies it only "if parsed.API != nil"
NilAPI == [isNil |-> TRUE, Title |-> "", Version |-> "", Tags |-> <<>>]
ResolvedAPI(title, version, tags) == [isNil |-> FALSE, Title |-> title, Version |-> version, Tags |-> tags]
APIPool == {NilAPI, ResolvedAPI("Staff", "1", <<>>), ResolvedAPI("Staff", "", <<"staff">>)}

\* Validator.validateAPI; the APIs of APIPool have no security scheme
validateAPI(a) ==
    (IF a.Title = "" THEN <<ValidationError(<<"@api">>, <<>>, "missing required @title")>> ELSE <<>>)
        \o (IF a.Version = ""
            THEN <<ValidationError(<<"@api">>, <<>>, "missing required @version")>> ELSE <<>>)

\* Validate, "Validate API"
apiErrors(a) ==
    IF a.isNil THEN <<ValidationError(<<>>, <<>>, "missing @api annotation")>> ELSE validateAPI(a)

\* validateEndpoint, "Validate tags reference defined API-level tags": the
\* condition reads pkg.API.Tags first, whatever tags the endpoint has
DereferencesAPI(pkg) == Len(pkg.Endpoints) > 0

\* how a call ended: it returned what Validate returns, or it stopped with the
\* runtime panic of a nil pointer dereference
ValidateReturned(v) == [ok |-> v.ok, err |-> v.err, errors |-> v.errors, panicked |-> FALSE]
Panicked == [ok |-> FALSE, err |-> "invalid memory address or nil pointer dereference",
             errors |-> <<>>, panicked |-> TRUE]

\* Validator.Validate on the package with the API a
ValidateWithAPI(pkg, a, schemaOrder, parameterOrder) ==
    IF a.isNil /\ DereferencesAPI(pkg) THEN Panicked
    ELSE ValidateReturned(Validated(apiErrors(a)
                                \o ValidatorValidate(pkg, schemaOrder, parameterOrder).errors))

InitValidate ==
    /\ parsedPackage \in ParsedPackages
    /\ resolvedPackage = NotRun
    /\ validation = NotRun
    /\ packageAPI \in APIPool
    /\ ended = NotRun
    /\ ParserIdle
    /\ BraceIdle
    /\ PipelineIdle
    /\ RunsIdle
    /\ ResolverIdle
    /\ BesideValidateIdle

\* Validator.Validate on what Resolve returned for a package with the API packageAPI
ValidateGiven ==
    /\ resolvedPackage.ok
    /\ ~Ran(ended)
    /\ \E schemaOrder \in RangeOrders(DOMAIN resolvedPackage.Schemas),
          parameterOrder \in RangeOrders(DOMAIN resolvedPackage.Parameters) :
        ended' = ValidateWithAPI(resolvedPackage, packageAPI, schemaOrder, parameterOrder)
    /\ UNCHANGED <<packageAPI, besideValidate>>

NextValidate ==
    \/ ResolvePackage
    \/ ValidateGiven

SpecValidate == InitValidate /\ [][NextValidate]_vars

\* Validate has added the error of the missing @api block
MentionsMissingAPI ==
    \E i \in 1..Len(ended.errors) : ended.errors[i].Message = "missing @api annotation"

\* C25: Validate on a package without API returns, and what it returns is an error
\* that names the missing @api annotation, whatever the package holds
C25_MissingAPIReturns ==
    Ran(ended) /\ packageAPI.isNil => ~ended.panicked /\ ~ended.ok /\ MentionsMissingAPI

\* without endpoints the call returns the error (TestValidator_Validate_MissingAPI)
C25_NoEndpoints ==
    Ran(ended) /\ packageAPI.isNil /\ Len(resolvedPackage.Endpoints) = 0
        => ~ended.panicked /\ ~ended.ok /\ MentionsMissingAPI

-----------------------------------------------------------------------------
(* A block with its braces written in different places *)

Layouts == {"spaced", "closerOnChild", "tight", "nextLine"}

\* the last line with the closing brace written behind it
WithCloser(lines) ==
    IF lines = <<>> THEN <<<<RB>>>>
    ELSE SubSeq(lines, 1, Len(lines) - 1) \o <<lines[Len(lines)] \o <<SP, RB>>>>

\* the lines of the block of target t with the child lines of chunks:
\*   spaced         "@x {" / children / "}"
\*   closerOnChild  "@x {" / children, the last one followed by " }"
\*   tight          "@x{" / children / "}"
\*   nextLine       "@x" / "{" / children / "}"
LayoutForm(l, t, chunks) ==
    CASE l = "spaced" -> MultiForm(t, chunks)
      [] l = "closerOnChild" -> <<OpenerOf(t) \o <<SP, LB>>>> \o WithCloser(Flatten(chunks))
      [] l = "tight" -> <<OpenerOf(t) \o <<LB>>>> \o Flatten(chunks) \o <<<<RB>>>>
      [] l = "nextLine" -> <<OpenerOf(t), <<LB>>>> \o Flatten(chunks) \o <<<<RB>>>>

InitLayout ==
    /\ node \in Targets
    /\ kids \in ChunkLists(node)
    /\ layout \in Layouts
    /\ multiOut = NotRun
    /\ inlineOut = NotRun
    /\ annOut = NotRun
    /\ laidOut = NotRun
    /\ BraceIdle
    /\ PipelineIdle
    /\ RunsIdle
    /\ ResolverIdle
    /\ PackageIdle
    /\ BesideLayoutIdle

\* ParseAnnotationBlock on the lines of the block
ParseLaidOut ==
    /\ ~Ran(laidOut)
    /\ laidOut' = ParseAnnotationBlock(LayoutForm(layout, node, kids), TargetNode(node).Name,
                                       TargetNode(node))
    /\ UNCHANGED <<layout, besideLayout>>

NextLayout == ParseLaidOut

SpecLayout == InitLayout /\ [][NextLayout]_vars

\* the chunks that start with the declared child name
ChunksNamed(name) == {i \in 1..Len(kids) : LeadingWord(kids[i][1]) = name}

\* the parsed block holds one child for every chunk of that name
Holds(pa, name) ==
    IF TargetNode(node).Children[name].Repeatable
    THEN Len(GetRepeatedChildren(pa, name)) = Cardinality(ChunksNamed(name))
    ELSE name \in DOMAIN pa.Children

\* every chunk that starts with an unescaped @ and a declared child name is in pa
EveryChildHeld(pa) ==
    \A i \in 1..Len(kids) : NamesSibling(kids[i][1]) => Holds(pa, LeadingWord(kids[i][1]))

\* C26: a block that parses holds every child written between its braces,
\* wherever the braces are written
C26_NoChildDiscarded == laidOut.ok => EveryChildHeld(laidOut.pa)

\* with " {" at the end of the opening line and "}" on a line of its own, in
\* multi-line format, no child is lost
C26_Spaced == laidOut.ok /\ layout = "spaced" /\ MultiLineFormat => EveryChildHeld(laidOut.pa)

-----------------------------------------------------------------------------
(* Properties of the required children of a block *)

\* the children the schema node of the block marks as required
RequiredChildren == {nm \in DOMAIN TargetNode(node).Children : TargetNode(node).Children[nm].Required}

\* the parsed block has the child, alone or in a list
HoldsChild(pa, nm) == nm \in DOMAIN pa.Children \/ Len(GetRepeatedChildren(pa, nm)) > 0

\* C27: a block with content between its braces that parses holds every child
\* its schema node requires
C27_RequiredChildrenPresent ==
    multiOut.ok /\ kids # <<>> => \A nm \in RequiredChildren : HoldsChild(multiOut.pa, nm)

\* a block without content fails when its schema node requires a child
C27_EmptyBlock ==
    Ran(multiOut) /\ kids = <<>> /\ RequiredChildren # {} => ~multiOut.ok

-----------------------------------------------------------------------------
(* The response map of an endpoint *)

\* parseEndpoints, "Parse responses": &Response{...} of one parsed @response block
ResponseOf(responseParsed) ==
    [StatusCode |-> responseParsed.Metadata,
     Description |-> GetChildValue(responseParsed, <<"@", "d", "e", "s", "c", "r", "i", "p", "t", "i", "o", "n">>),
     HasBody |-> <<"@", "b", "o", "d", "y">> \in DOMAIN responseParsed.Children]

\* parseEndpoints, "Parse responses": the loop over the parsed @response blocks
\* from block i on, endpoint.Responses[statusCode] = resp
RECURSIVE responsesFrom(_, _, _)
responsesFrom(blocks, i, responses) ==
    IF i > Len(blocks) THEN responses
    ELSE responsesFrom(blocks, i + 1,
                       (blocks[i].Metadata :> ResponseOf(blocks[i])) @@ responses)

\* endpoint.Responses of a parsed @endpoint annotation
EndpointResponses(pa) == responsesFrom(GetRepeatedChildren(pa, <<"@", "r", "e", "s", "p", "o", "n", "s", "e">>), 1, <<>>)

\* the @response blocks written in the endpoint annotation
ResponseBlocks == {i \in 1..Len(kids) : LeadingWord(kids[i][1]) = <<"@", "r", "e", "s", "p", "o", "n", "s", "e">>}

\* C28: the response map of a parsed endpoint has one entry per @response block
\* written in the annotation
C28_OneEntryPerResponse ==
    multiOut.ok /\ node = "endpoint" =>
        Cardinality(DOMAIN EndpointResponses(multiOut.pa)) = Cardinality(ResponseBlocks)

\* the parsed annotation itself keeps every @response block
C28_BlocksParsed ==
    multiOut.ok /\ node = "endpoint" =>
        Len(GetRepeatedChildren(multiOut.pa, <<"@", "r", "e", "s", "p", "o", "n", "s", "e">>)) = Cardinality(ResponseBlocks)

-----------------------------------------------------------------------------
(* The recursion of resolveType and checkUnresolvedStruct, call by call *)

\* named container types whose declaration mentions the type itself:
\* type Tree []Tree and type M map[string]M
RecursiveNames == {"Tree", "M"}
RecursiveDecl(name) ==
    CASE name = "Tree" -> <<"[]", "Tree">>
      [] name = "M" -> <<"map[string]", "M">>

\* t.(*types.Named), named.Underlying() and the test for a special type, with
\* the two recursive declarations
IsDeclared(t) == IsNamed(t) \/ (Len(t) = 1 /\ t[1] \in RecursiveNames)
UnderlyingType(t) == IF t[1] \in RecursiveNames THEN RecursiveDecl(t[1]) ELSE Underlying(t)
IsSpecialDeclared(t) ==
    /\ t[1] \notin RecursiveNames
    /\ isSpecialType(TypeDecl(t[1]).pkgPath, TypeDecl(t[1]).Name)

\* what one call does: it returns, or it calls the function again on another type
Returns == [returns |-> TRUE, next |-> <<>>]
Calls(t) == [returns |-> FALSE, next |-> t]

\* one call of resolveType on t with the type strings of typeCache
resolveTypeCall(cache, t) ==
    IF TypeString(t) \in cache THEN Returns
    ELSE IF IsSliceType(unwrapPointer(t)) THEN Calls(Elem(unwrapPointer(t)))
    ELSE IF IsAlias(unwrapPointer(t)) THEN Calls(Rhs(unwrapPointer(t)[1]))
    ELSE IF IsDeclared(unwrapPointer(t))
         THEN IF IsSpecialDeclared(unwrapPointer(t)) THEN Returns
              ELSE Calls(UnderlyingType(unwrapPointer(t)))
    ELSE Returns

\* one call of checkUnresolvedStruct on t
checkUnresolvedCall(t) ==
    IF IsSliceType(unwrapPointer(t)) \/ IsMapType(unwrapPointer(t))
    THEN Calls(Elem(unwrapPointer(t)))
    ELSE IF ~IsDeclared(unwrapPointer(t)) THEN Returns
    ELSE IF IsSpecialDeclared(unwrapPointer(t)) THEN Returns
    ELSE IF IsStruct(UnderlyingType(unwrapPointer(t))) THEN Returns
    ELSE Calls(UnderlyingType(unwrapPointer(t)))

\* the field types the two functions are called on
FieldTypePool ==
    {<<"string">>, <<"*", "int64">>, <<"[]", "string">>, <<"[]", "[]", "Employee">>,
     <<"Status">>, <<"Tags">>, <<"Employee">>, <<"time.Time">>, <<"any">>, <<"Staff">>,
     <<"map[string]", "Address">>, <<"map[string]", "Tags">>,
     <<"Tree">>, <<"[]", "Tree">>, <<"*", "Tree">>, <<"M">>, <<"map[string]", "M">>}

\* the type strings typeCache can hold when the field is reached: resolveType
\* stores a type only when its call returns
CachedBefore == SUBSET {<<"string">>, <<"[]", "string">>}

Descending(fn, type, cache) == [fn |-> fn, type |-> type, cache |-> cache, at |-> type, returned |-> FALSE]

InitDescend ==
    /\ \E fn \in {"resolveType", "checkUnresolvedStruct"}, type \in FieldTypePool, cache \in CachedBefore :
           descent = Descending(fn, type, cache)
    /\ ParserIdle
    /\ BraceIdle
    /\ PipelineIdle
    /\ RunsIdle
    /\ ResolverIdle
    /\ PackageIdle
    /\ BesideDescendIdle

\* the call in progress returns to its caller or calls itself
AfterCall(step) ==
    IF step.returns THEN [descent EXCEPT !.returned = TRUE]
    ELSE [descent EXCEPT !.at = step.next]

\* the next call of resolveType
ResolveTypeCall ==
    /\ descent.fn = "resolveType"
    /\ ~descent.returned
    /\ descent' = AfterCall(resolveTypeCall(descent.cache, descent.at))
    /\ UNCHANGED besideDescend

\* the next call of checkUnresolvedStruct
CheckUnresolvedCall ==
    /\ descent.fn = "checkUnresolvedStruct"
    /\ ~descent.returned
    /\ descent' = AfterCall(checkUnresolvedCall(descent.at))
    /\ UNCHANGED besideDescend

NextDescend ==
    \/ ResolveTypeCall
    \/ CheckUnresolvedCall

SpecDescend == InitDescend /\ [][NextDescend]_vars

\* a call that can run does run
SpecDescendFair == SpecDescend /\ WF_vars(NextDescend)

\* C29: resolveType and checkUnresolvedStruct return on every field type
C29_Terminates == <>descent.returned

\* the field type mentions one of the two recursive declarations
MentionsRecursive == \E i \in 1..Len(descent.type) : descent.type[i] \in RecursiveNames

\* on the field types without a recursive container declaration both functions
\* return, and resolveType returns on the recursive map type as well
C29_OtherTypes ==
    (~MentionsRecursive \/ (descent.fn = "resolveType" /\ "Tree" \notin {descent.type[i] : i \in 1..Len(descent.type)}))
        => <>descent.returned

-----------------------------------------------------------------------------
(* ParseAnnotationBlock call by call: the loop of parseChildren and the    *)
(* recursive calls for the children                                        *)

\* the call reaches parseChildren: a block or sub-command whose braces hold
\* content that is not in inline format
ReachesLoop(lines, n) ==
    /\ n.Type \in {"BlockAnnotation", "SubCommand"}
    /\ ParseBracedBlock(lines).ok
    /\ Len(ParseBracedBlock(lines).content) > 0
    /\ ~(/\ Len(ParseBracedBlock(lines).content) = 1
         /\ isInlineContent(At(ParseBracedBlock(lines).content, 0)))

\* ParseAnnotationBlock up to the call of parseChildren: the lines it received,
\* the content between the braces, the loop index and the result so far
Frame(lines, annotationName, n) ==
    [lines |-> lines, name |-> annotationName, node |-> n,
     content |-> ParseBracedBlock(lines).content, i |-> 0,
     result |-> IF n.HasMetadata /\ Len(lines) > 0
                THEN [NewParsedAnnotation(annotationName, lines)
                          EXCEPT !.Metadata = ExtractMetadata(At(lines, 0), annotationName)]
                ELSE NewParsedAnnotation(annotationName, lines)]

\* parseChildren, "Collect all lines for this annotation": the lines of the
\* child that line i starts and the index behind them
collectChild(lines, i, parentNode, childNode) ==
    IF findBlockOpener(At(lines, i)) >= 0
    THEN collectBlock(lines, i + 1,
                      countBracesFromPosition(At(lines, i), findBlockOpener(At(lines, i))),
                      <<At(lines, i)>>)
    ELSE IF childNode.SupportsMultiline
    THEN collectContinuation(lines, i + 1, parentNode, <<At(lines, i)>>)
    ELSE [i |-> i + 1, lines |-> <<At(lines, i)>>]

\* the stack with the top frame replaced
WithTop(stack, frame) == [stack EXCEPT ![Len(stack)] = frame]

\* the number of characters and line ends of a list of lines
RECURSIVE TextSize(_)
TextSize(lines) == IF lines = <<>> THEN 0 ELSE Len(Head(lines)) + 1 + TextSize(Tail(lines))

InitCalls ==
    /\ node \in Targets
    /\ kids \in ChunkLists(node)
    /\ multiOut = NotRun
    /\ inlineOut = NotRun
    /\ annOut = NotRun
    /\ frames = <<>>
    /\ outcome = NotRun
    /\ BraceIdle
    /\ PipelineIdle
    /\ RunsIdle
    /\ ResolverIdle
    /\ PackageIdle
    /\ BesideFramesIdle

\* the outermost call of ParseAnnotationBlock, up to its parseChildren loop or,
\* when it has none, to its return
EnterBlock ==
    /\ ~Ran(outcome)
    /\ frames = <<>>
    /\ IF ReachesLoop(MultiForm(node, kids), TargetNode(node))
       THEN /\ frames' = <<Frame(MultiForm(node, kids), TargetNode(node).Name, TargetNode(node))>>
            /\ UNCHANGED outcome
       ELSE /\ outcome' = ParseAnnotationBlock(MultiForm(node, kids), TargetNode(node).Name,
                                               TargetNode(node))
            /\ UNCHANGED frames
    /\ UNCHANGED besideFrames

\* the parse ends with an error
Fails(failed) == frames' = <<>> /\ outcome' = failed

\* parseChildren, one iteration of the loop of the innermost call: the line is
\* passed over, or names no child, or starts a child whose lines are collected
\* and handed to ParseAnnotationBlock
LoopIteration ==
    /\ frames # <<>>
    /\ frames[Len(frames)].i < Len(frames[Len(frames)].content)
    /\ LET top == frames[Len(frames)]
           line == At(top.content, top.i)
           annotationName == extractAnnotationName(line)
       IN  IF TrimSpace(line) = <<>> \/ ~HasPrefix(line, <<AT>>) \/ annotationName = <<>>
           THEN frames' = WithTop(frames, [top EXCEPT !.i = top.i + 1]) /\ UNCHANGED outcome
           ELSE IF ~HasChild(top.node, annotationName)
           THEN Fails(unknownChild(top.content, top.i, top.node, top.result))
           ELSE LET childNode == GetChild(top.node, annotationName)
                    got == collectChild(top.content, top.i, top.node, childNode)
                    child == ParseAnnotationBlock(got.lines, annotationName, childNode)
                    stored == StoreChild(top.result, childNode, annotationName, child.pa)
                IN  IF ReachesLoop(got.lines, childNode)
                    THEN /\ frames' = Append(WithTop(frames, [top EXCEPT !.i = got.i]),
                                             Frame(got.lines, annotationName, childNode))
                         /\ UNCHANGED outcome
                    ELSE IF ~child.ok THEN Fails(child)
                    ELSE IF ~stored.ok THEN Fails(stored)
                    ELSE /\ frames' = WithTop(frames, [top EXCEPT !.i = got.i, !.result = stored.pa])
                         /\ UNCHANGED outcome
    /\ UNCHANGED besideFrames

\* the loop of the innermost call is over: the call returns its result, which
\* the caller stores
ReturnBlock ==
    /\ frames # <<>>
    /\ frames[Len(frames)].i >= Len(frames[Len(frames)].content)
    /\ LET top == frames[Len(frames)]
           rest == SubSeq(frames, 1, Len(frames) - 1)
       IN  IF rest = <<>> THEN frames' = <<>> /\ outcome' = Ok(top.result)
           ELSE LET stored == StoreChild(rest[Len(rest)].result, top.node, top.name, top.result)
                IN  IF ~stored.ok THEN Fails(stored)
                    ELSE /\ frames' = WithTop(rest, [rest[Len(rest)] EXCEPT !.result = stored.pa])
                         /\ UNCHANGED outcome
    /\ UNCHANGED besideFrames

NextCalls ==
    \/ EnterBlock
    \/ LoopIteration
    \/ ReturnBlock

SpecCalls == InitCalls /\ [][NextCalls]_vars

\* as long as the outermost call has not returned, one of the three steps can be
\* taken and changes the state
CallsRunning == frames # <<>> => ~Ran(outcome)

\* a call that can go on does go on: weak fairness of NextCalls, with the
\* enabling condition of its steps written as the state predicate ~Ran(outcome)
SpecCallsFair == SpecCalls /\ ([]<>Ran(outcome) \/ []<><<NextCalls>>_vars)

\* an iteration that leaves the call in its loop has moved the index forward
IterationConsumes ==
    /\ frames # <<>>
    /\ Len(frames') >= Len(frames)
    => frames'[Len(frames)].i > frames[Len(frames)].i

\* a call for a child has received less text than the call that made it
ChildGetsLess ==
    /\ frames # <<>>
    /\ Len(frames') > Len(frames)
    => TextSize(frames'[Len(frames')].lines) < TextSize(frames[Len(frames)].lines)

\* C30: ParseAnnotationBlock returns; every iteration of the loop of
\* parseChildren consumes at least one line, and every recursive call for a
\* child receives strictly less text than the block that contains it
C30_Terminates ==
    /\ <>Ran(outcome)
    /\ [][IterationConsumes /\ ChildGetsLess]_vars

\* a child block is inside its own loop, called from the loop of the block
C30_Witness ==
    /\ Len(frames) = 2
    /\ frames[1].i > 0
    /\ frames[2].i > 0

\* the calls return what ParseAnnotationBlock returns
CallsAgree ==
    Ran(outcome) =>
        outcome = ParseAnnotationBlock(MultiForm(node, kids), TargetNode(node).Name, TargetNode(node))

====
